---- MODULE Spec2Model ----
(***************************************************************************)
(* A model of tiny-dc's hotkey engine: the prefix trie over key sequences  *)
(* (src/src/hotkeys.rs), the two-tier registry built on it, and the pass   *)
(* that assigns key sequences to the rendered directory entries.           *)
(*                                                                         *)
(* Rust values are modelled as follows.                                    *)
(*   Option<T>        None, Some(v): records [some |-> FALSE] and          *)
(*                    [some |-> TRUE, val |-> v]                           *)
(*   char             a one-character string                               *)
(*   String, &str     a sequence of chars                                  *)
(*   KeyCode          a string: KeyCode::Char(c) is the char c, any other  *)
(*                    key code is its name ("Esc", "Home", ...)            *)
(*   KeyCombo         [key_code, modifiers]                                *)
(*   HashMap<K, V>    a function whose domain is the set of present keys   *)
(*   Vec<T>, &[T]     a sequence; Rust's index i is index i + 1 here       *)
(***************************************************************************)
EXTENDS Integers, Sequences, FiniteSets, TLC

VARIABLES
    trie,               \* a HotkeysTrie<T> on its own (trie-level operations)
    inserted,           \* ghost: sequence -> value of the inserts since the last clear
    trie_ops,           \* ghost: number of trie operations performed
    hotkeys_registry,   \* App::hotkeys_registry, a HotkeysRegistry<InputMode, Action>
    entries,            \* the entries handed to the renderer, in listing order
    search_query,       \* the search text the render data is computed from
    preferred_key_combos_in_order,  \* the pool handed to assign_hotkeys
    entry_render_data,  \* the Vec<EntryRenderData> of the current pass
    status,             \* "ready", "done" (the pass returned), "panicked", "hung"
    registry_ops,       \* ghost: number of registry operations performed
    app,                \* the App of the interactive loop (its registry is hotkeys_registry)
    app_pc,             \* App::run: "draw" or "handle_events"; "exited" after the loop
    last_keystroke,     \* ghost: the last key event, if a press, and what its handler did
    keystrokes,         \* ghost: number of key events handled
    index_table,        \* DirectoryIndex::data, the in-memory table
    index_file,         \* the lines of the index file on disk
    existing_paths,     \* the paths that exist on disk
    now,                \* SystemTime::now(), in seconds
    z_call,             \* ghost: the last call of z: its inputs and its outcome
    index_ops,          \* ghost: number of index operations performed
    index_call,         \* ghost: the last load or push: its inputs and its outcome
    peer_table          \* DirectoryIndex::data of a second process on the same file

vars == <<trie, inserted, trie_ops, hotkeys_registry, entries, search_query,
          preferred_key_combos_in_order, entry_render_data, status, registry_ops,
          app, app_pc, last_keystroke, keystrokes,
          index_table, index_file, existing_paths, now, z_call, index_ops,
          index_call, peer_table>>

trie_vars == <<trie, inserted, trie_ops>>

registry_vars == <<hotkeys_registry, entries, search_query,
                   preferred_key_combos_in_order, entry_render_data, status,
                   registry_ops>>

app_vars == <<app, app_pc, last_keystroke, keystrokes>>

index_vars == <<index_table, index_file, existing_paths, now, z_call, index_ops,
                index_call, peer_table>>

----------------------------------------------------------------------------
(* Bounds of the model. *)

\* longest key sequence given to a trie-level insert or lookup
MaxSeqLen == 2

\* number of trie-level operations in one behaviour
MaxTrieOps == 3

\* longest entry list handed to one assignment pass
MaxEntries == 6

\* longest pool of preferred key combos handed to one assignment pass
MaxPool == 3

\* number of registry operations in one behaviour
MaxRegistryOps == 2

\* longest entry list of a pass made between other registry operations
MaxRegistryEntries == 2

----------------------------------------------------------------------------
(* Option<T> *)

None == [some |-> FALSE]

Some(v) == [some |-> TRUE, val |-> v]

----------------------------------------------------------------------------
(* KeyCombo *)

KeyComboFrom(key_code, modifiers) == [key_code |-> key_code, modifiers |-> modifiers]

key_combo_from_char(c) == [key_code |-> c, modifiers |-> "NONE"]

----------------------------------------------------------------------------
(* HotkeysTrieNode<T> and HotkeysTrie<T> *)

NoChildren == [k \in {} |-> None]

HotkeysTrieNode_new == [children |-> NoChildren, value |-> None]

HotkeysTrie_new == [root |-> HotkeysTrieNode_new]

\* the loop of insert: walk from `node` along key_combos, creating the missing
\* nodes, and set the value of the node reached
RECURSIVE insert_from(_, _, _)
insert_from(node, key_combos, value) ==
    IF key_combos = <<>>
    THEN [node EXCEPT !.value = Some(value)]
    ELSE LET key_combo == Head(key_combos)
             child == IF key_combo \in DOMAIN node.children
                      THEN node.children[key_combo]
                      ELSE HotkeysTrieNode_new
         IN [node EXCEPT !.children =
                 (key_combo :> insert_from(child, Tail(key_combos), value)) @@ @]

HotkeysTrie_insert_dropping_old_siblings(t, key_combos, value) ==
    LET RECURSIVE walk(_, _)
        walk(node, ks) ==
            IF ks = <<>>
            THEN [node EXCEPT !.value = Some(value)]
            ELSE LET child == IF Head(ks) \in DOMAIN node.children
                              THEN node.children[Head(ks)]
                              ELSE HotkeysTrieNode_new
                 IN [node EXCEPT !.children = (Head(ks) :> walk(child, Tail(ks)))]
    IN [root |-> walk(t.root, key_combos)]

HotkeysTrie_insert_without_value(t, key_combos, value) ==
    LET RECURSIVE walk(_, _)
        walk(node, ks) ==
            IF ks = <<>>
            THEN node
            ELSE LET child == IF Head(ks) \in DOMAIN node.children
                              THEN node.children[Head(ks)]
                              ELSE HotkeysTrieNode_new
                 IN [node EXCEPT !.children = (Head(ks) :> walk(child, Tail(ks))) @@ @]
    IN [root |-> walk(t.root, key_combos)]

HotkeysTrie_insert(t, key_combos, value) ==
    [root |-> insert_from(t.root, key_combos, value)]

\* the loop of get_node: Some(node reached) or None when a key has no child
RECURSIVE get_node_from(_, _)
get_node_from(node, key_combos) ==
    IF key_combos = <<>>
    THEN Some(node)
    ELSE IF Head(key_combos) \in DOMAIN node.children
         THEN get_node_from(node.children[Head(key_combos)], Tail(key_combos))
         ELSE None

HotkeysTrie_get_node_ignoring_missing_child(t, key_combos) ==
    LET RECURSIVE walk(_, _)
        walk(node, ks) ==
            IF ks = <<>>
            THEN Some(node)
            ELSE IF Head(ks) \in DOMAIN node.children
                 THEN walk(node.children[Head(ks)], Tail(ks))
                 ELSE Some(node)
    IN walk(t.root, key_combos)

HotkeysTrie_get_node(t, key_combos) == get_node_from(t.root, key_combos)

HotkeysTrie_get_value(t, key_combos) ==
    LET node == HotkeysTrie_get_node(t, key_combos)
    IN IF node.some THEN node.val.value ELSE None

HotkeysTrie_clear(t) ==
    [t EXCEPT !.root.children = NoChildren, !.root.value = None]

----------------------------------------------------------------------------
(* Action, InputMode, ListMode (src/src/app.rs) *)

InputModes == {"Normal", "Search"}

Action(tag) == [tag |-> tag]

ChangeDirectoryToEntryWithIndex(index) ==
    [tag |-> "ChangeDirectoryToEntryWithIndex", index |-> index]

SwitchToListMode(mode) == [tag |-> "SwitchToListMode", mode |-> mode]

SwitchToInputMode(mode) == [tag |-> "SwitchToInputMode", mode |-> mode]

----------------------------------------------------------------------------
(* HotkeysRegistry<C, T> *)

NoTries == [c \in {} |-> HotkeysTrie_new]

HotkeysRegistry_new ==
    [system_hotkeys |-> NoTries,
     system_hotkeys_count |-> 0,
     entry_hotkeys |-> HotkeysTrie_new,
     entry_hotkeys_count |-> 0]

register_system_hotkey(registry, context, key_combos, value) ==
    LET t == IF context \in DOMAIN registry.system_hotkeys
             THEN registry.system_hotkeys[context]
             ELSE HotkeysTrie_new
    IN [registry EXCEPT
           !.system_hotkeys_count = @ + 1,
           !.system_hotkeys = (context :> HotkeysTrie_insert(t, key_combos, value)) @@ @]

register_entry_hotkey_counting_system_tier(registry, key_combos, value) ==
    [registry EXCEPT
        !.system_hotkeys_count = @ + 1,
        !.entry_hotkeys = HotkeysTrie_insert(@, key_combos, value)]

register_entry_hotkey(registry, key_combos, value) ==
    [registry EXCEPT
        !.entry_hotkeys_count = @ + 1,
        !.entry_hotkeys = HotkeysTrie_insert(@, key_combos, value)]

clear_entry_hotkeys_keeping_trie(registry) ==
    [registry EXCEPT !.entry_hotkeys_count = 0]

clear_entry_hotkeys(registry) ==
    [registry EXCEPT
        !.entry_hotkeys = HotkeysTrie_clear(@),
        !.entry_hotkeys_count = 0]

get_hotkey_value_entry_tier_first(registry, context, key_combos) ==
    LET entry_value == HotkeysTrie_get_value(registry.entry_hotkeys, key_combos)
    IN IF entry_value.some
       THEN entry_value
       ELSE IF context \in DOMAIN registry.system_hotkeys
            THEN HotkeysTrie_get_value(registry.system_hotkeys[context], key_combos)
            ELSE None

get_hotkey_value(registry, context, key_combos) ==
    IF registry.system_hotkeys_count = 0 /\ registry.entry_hotkeys_count = 0
    THEN None
    ELSE LET system_value ==
                 IF context \in DOMAIN registry.system_hotkeys
                 THEN HotkeysTrie_get_value(registry.system_hotkeys[context], key_combos)
                 ELSE None
         IN IF system_value.some
            THEN system_value
            ELSE HotkeysTrie_get_value(registry.entry_hotkeys, key_combos)

get_hotkey_node(registry, context, key_combos) ==
    IF registry.system_hotkeys_count = 0 /\ registry.entry_hotkeys_count = 0
    THEN None
    ELSE LET system_node ==
                 IF context \in DOMAIN registry.system_hotkeys
                 THEN HotkeysTrie_get_node(registry.system_hotkeys[context], key_combos)
                 ELSE None
         IN IF system_node.some
            THEN system_node
            ELSE HotkeysTrie_get_node(registry.entry_hotkeys, key_combos)

\* the registrations of new_with_default_system_hotkeys, in source order
DefaultSystemHotkeys ==
    << <<"Normal", <<key_combo_from_char("g"), key_combo_from_char("g")>>, Action("SelectFirst")>>,
       <<"Normal", <<KeyComboFrom("Home", "NONE")>>, Action("SelectFirst")>>,
       <<"Normal", <<KeyComboFrom("G", "SHIFT")>>, Action("SelectLast")>>,
       <<"Normal", <<KeyComboFrom("End", "NONE")>>, Action("SelectLast")>>,
       <<"Normal", <<key_combo_from_char("j")>>, Action("SelectNext")>>,
       <<"Normal", <<KeyComboFrom("Down", "NONE")>>, Action("SelectNext")>>,
       <<"Normal", <<key_combo_from_char("k")>>, Action("SelectPrevious")>>,
       <<"Normal", <<KeyComboFrom("Up", "NONE")>>, Action("SelectPrevious")>>,
       <<"Normal", <<KeyComboFrom("d", "CONTROL")>>, SwitchToListMode("Directory")>>,
       <<"Normal", <<key_combo_from_char("l")>>, Action("ChangeDirectoryToSelectedEntry")>>,
       <<"Normal", <<key_combo_from_char("h")>>, Action("ChangeDirectoryToParent")>>,
       <<"Normal", <<KeyComboFrom("f", "CONTROL")>>, SwitchToListMode("Frecent")>>,
       <<"Normal", <<key_combo_from_char("?")>>, Action("ToggleHelp")>>,
       <<"Normal", <<key_combo_from_char("/")>>, SwitchToInputMode("Search")>>,
       <<"Normal", <<KeyComboFrom("Esc", "NONE")>>, Action("Exit")>>,
       <<"Normal", <<key_combo_from_char("q")>>, Action("Exit")>>,
       <<"Normal", <<KeyComboFrom("Enter", "NONE")>>, Action("ChangeDirectoryToSelectedEntry")>>,
       <<"Normal", <<key_combo_from_char("_")>>, Action("ResetSearchInput")>>,
       <<"Search", <<KeyComboFrom("Esc", "NONE")>>, Action("ExitSearchMode")>>,
       <<"Search", <<KeyComboFrom("Enter", "NONE")>>, Action("ExitSearchInput")>>,
       <<"Search", <<KeyComboFrom("Backspace", "NONE")>>, Action("SearchInputBackspace")>> >>

RECURSIVE register_all(_, _)
register_all(registry, registrations) ==
    IF registrations = <<>>
    THEN registry
    ELSE LET r == Head(registrations)
         IN register_all(register_system_hotkey(registry, r[1], r[2], r[3]),
                         Tail(registrations))

new_with_default_system_hotkeys == register_all(HotkeysRegistry_new, DefaultSystemHotkeys)

----------------------------------------------------------------------------
(* Entry and EntryRenderData (src/src/entry.rs) *)

\* char::to_lowercase on the characters that occur in the model
ToLowerChar(c) == IF c = "C" THEN "c" ELSE IF c = "D" THEN "d" ELSE c

to_lowercase(s) == [i \in 1..Len(s) |-> ToLowerChar(s[i])]

\* str::find: Some(index of the first occurrence, counted from 0) or None
find(haystack, needle) ==
    LET hits == {i \in 0..(Len(haystack) - Len(needle)) :
                    SubSeq(haystack, i + 1, i + Len(needle)) = needle}
    IN IF hits = {} THEN None
       ELSE Some(CHOOSE i \in hits : \A j \in hits : i <= j)

\* s.chars().next()
first_char(s) == IF s = <<>> THEN None ELSE Some(s[1])

\* EntryRenderData::illegal_char_for_hotkey, the field assign_hotkeys reads, from
\* the character from_entry finds next: it is that character in lower case
illegal_char_for_hotkey(next_char) ==
    IF next_char.some THEN Some(ToLowerChar(next_char.val)) ELSE None

EntryRenderData(is_dynamic, prefix, search_hit, suffix, next_char, kind) ==
    [is_dynamic |-> is_dynamic,
     prefix |-> prefix,
     search_hit |-> search_hit,
     suffix |-> suffix,
     illegal_char_for_hotkey |-> illegal_char_for_hotkey(next_char),
     kind |-> kind,
     key_combo_sequence |-> None]

from_entry(entry, query) ==
    IF entry.name = <<".", ".">>
    THEN EntryRenderData(TRUE, entry.name, <<>>, <<>>, None, "Directory")
    ELSE IF query = <<>>
    THEN EntryRenderData(FALSE, entry.name, <<>>, <<>>, first_char(entry.name), entry.kind)
    ELSE LET name == to_lowercase(entry.name)
             lowered_query == to_lowercase(query)
             index == find(name, lowered_query)
         IN IF index.some
            THEN LET prefix == SubSeq(entry.name, 1, index.val)
                     search_hit == SubSeq(entry.name, index.val + 1,
                                          index.val + Len(lowered_query))
                     suffix == SubSeq(entry.name, index.val + Len(lowered_query) + 1,
                                      Len(entry.name))
                 IN EntryRenderData(FALSE, prefix, search_hit, suffix,
                                    first_char(suffix), entry.kind)
            ELSE EntryRenderData(FALSE, entry.name, <<>>, <<>>,
                                 first_char(entry.name), entry.kind)

\* render_list: the render data of the entries, in listing order
render_data_of(listing, query) == [i \in 1..Len(listing) |-> from_entry(listing[i], query)]

----------------------------------------------------------------------------
(* HotkeysRegistry<InputMode, Action>: the assignment pass *)

\* usize::pow (b^e is b for every e >= 1 when b < 2)
RECURSIVE Pow(_, _)
Pow(b, e) == IF e = 0 THEN 1 ELSE IF b < 2 THEN b ELSE b * Pow(b, e - 1)

\* fn generate and its for loop; st is [current, result], both of them mutated
\* in place by the source
RECURSIVE generate(_, _, _)
RECURSIVE generate_for(_, _, _, _)
generate(key_combos, st, pos) ==
    IF pos = Len(st.current)
    THEN [st EXCEPT !.result = Append(@, st.current)]
    ELSE generate_for(key_combos, st, pos, 1)

generate_for(key_combos, st, pos, i) ==
    IF i > Len(key_combos)
    THEN st
    ELSE generate_for(key_combos,
                      generate(key_combos,
                               [st EXCEPT !.current[pos + 1] = key_combos[i]],
                               pos + 1),
                      pos, i + 1)

generate_sequence_permutations_last_symbol_slowest(key_combos, length) ==
    LET RECURSIVE gen(_)
        gen(n) == IF n = 0 THEN << <<>> >>
                  ELSE LET shorter == gen(n - 1)
                       IN [i \in 1..(Len(shorter) * Len(key_combos)) |->
                              Append(shorter[((i - 1) % Len(shorter)) + 1],
                                     key_combos[((i - 1) \div Len(shorter)) + 1])]
    IN IF key_combos = <<>> THEN None ELSE Some(gen(length))

generate_sequence_permutations_never_setting_current(key_combos, length) ==
    IF key_combos = <<>> THEN None
    ELSE Some([n \in 1..Pow(Len(key_combos), length) |->
                  [i \in 1..length |-> key_combos[1]]])

\* None is the panic of key_combos[0] on an empty slice
generate_sequence_permutations(key_combos, length) ==
    IF key_combos = <<>>
    THEN None
    ELSE Some(generate(key_combos,
                       [current |-> [i \in 1..length |-> key_combos[1]],
                        result |-> <<>>],
                       0).result)

\* the indexes (from 0) of the entries whose kind is Directory, in order
RECURSIVE collect_directory_indexes_of_every_kind(_, _, _)
collect_directory_indexes_of_every_kind(render_data, i, directory_indexes) ==
    IF i > Len(render_data)
    THEN directory_indexes
    ELSE collect_directory_indexes_of_every_kind(
             render_data, i + 1, Append(directory_indexes, i - 1))

RECURSIVE collect_directory_indexes(_, _, _)
collect_directory_indexes(render_data, i, directory_indexes) ==
    IF i > Len(render_data)
    THEN directory_indexes
    ELSE collect_directory_indexes(
             render_data, i + 1,
             IF render_data[i].kind = "Directory"
             THEN Append(directory_indexes, i - 1)
             ELSE directory_indexes)

illegal_key_codes(render_data) ==
    {render_data[i].illegal_char_for_hotkey.val :
        i \in {j \in 1..Len(render_data) : render_data[j].illegal_char_for_hotkey.some}}

available_key_combos_keeping_illegal(preferred, illegal) == preferred

available_key_combos(preferred, illegal) ==
    SelectSeq(preferred, LAMBDA key_combo : key_combo.key_code \notin illegal)

sequence_length_loop_while_not_greater(count, directories, sequence_length, build, wrapped) ==
    LET RECURSIVE loop(_)
        loop(n) == IF Pow(count, n) <= directories THEN loop(n + 1) ELSE n
    IN IF count < 2
       THEN [outcome |-> "panic", sequence_length |-> 0]
       ELSE [outcome |-> "ok", sequence_length |-> loop(sequence_length)]

\* the while loop that computes sequence_length, a u32 that starts at 1. When
\* count < 2 the power is the same for every sequence_length >= 1, so a test
\* that fails once fails at every later value up to u32::MAX, where the
\* increment overflows: a debug build panics there, a release build wraps to 0
\* and goes on; a second wrap means the loop never ends.
RECURSIVE sequence_length_loop(_, _, _, _, _)
sequence_length_loop(count, directories, sequence_length, build, wrapped) ==
    IF ~(Pow(count, sequence_length) < directories)
    THEN [outcome |-> "ok", sequence_length |-> sequence_length]
    ELSE IF count < 2 /\ sequence_length >= 1
    THEN IF build = "debug" THEN [outcome |-> "panic", sequence_length |-> 0]
         ELSE IF wrapped THEN [outcome |-> "hang", sequence_length |-> 0]
         ELSE sequence_length_loop(count, directories, 0, build, TRUE)
    ELSE sequence_length_loop(count, directories, sequence_length + 1, build, wrapped)

\* the final while loop: the i-th directory gets permutations[i]
RECURSIVE assign_loop(_, _, _, _, _)
assign_loop(registry, render_data, directory_indexes, permutations, i) ==
    IF i >= Len(directory_indexes)
    THEN [registry |-> registry, entry_render_data |-> render_data, outcome |-> "returned"]
    ELSE LET directory_index == directory_indexes[i + 1]
         IN assign_loop(
                register_entry_hotkey(registry, permutations[i + 1],
                                      ChangeDirectoryToEntryWithIndex(directory_index)),
                [render_data EXCEPT ![directory_index + 1].key_combo_sequence =
                                        Some(permutations[i + 1])],
                directory_indexes, permutations, i + 1)

\* assign_hotkeys on a `build` ("debug" or "release"): the registry and the
\* render data it leaves, and how it ended
assign_hotkeys(registry, render_data, preferred, build) ==
    LET cleared == clear_entry_hotkeys(registry)
        stop(outcome) == [registry |-> cleared, entry_render_data |-> render_data,
                          outcome |-> outcome]
        directory_indexes == collect_directory_indexes(render_data, 1, <<>>)
        directory_indexes_count == Len(directory_indexes)
        available == available_key_combos(preferred, illegal_key_codes(render_data))
        available_key_codes_count == Len(available)
        length == sequence_length_loop(available_key_codes_count,
                                       directory_indexes_count, 1, build, FALSE)
        permutations == generate_sequence_permutations(available, length.sequence_length)
    IN IF directory_indexes_count = 0 THEN stop("returned")
       ELSE IF available_key_codes_count < 2 /\ directory_indexes_count > 1
       THEN stop("returned")
       ELSE IF length.outcome # "ok" THEN stop(length.outcome)
       ELSE IF ~permutations.some THEN stop("panic")
       ELSE IF ~(Len(permutations.val) >= directory_indexes_count) THEN stop("panic")
       ELSE assign_loop(cleared, render_data, directory_indexes, permutations.val, 0)

----------------------------------------------------------------------------
(* Trie-level behaviours: any sequence of insert and clear on one trie. *)

\* the key combos and values the trie-level operations draw from
TrieKeyCombos == {key_combo_from_char("a"), key_combo_from_char("b")}

TrieValues == {1, 2}

RECURSIVE SeqsUpTo(_, _)
SeqsUpTo(S, n) ==
    IF n = 0 THEN {<<>>}
    ELSE LET shorter == SeqsUpTo(S, n - 1)
         IN shorter \cup {Append(s, x) : s \in shorter, x \in S}

TrieSeqs == SeqsUpTo(TrieKeyCombos, MaxSeqLen)

\* lookups are also tried one key past the longest inserted sequence
TrieLookups == SeqsUpTo(TrieKeyCombos, MaxSeqLen + 1)

NoInserts == [s \in {} |-> 0]

IsPrefix(s, t) == Len(s) <= Len(t) /\ SubSeq(t, 1, Len(s)) = s

TrieInsert ==
    /\ trie_ops < MaxTrieOps
    /\ \E key_combos \in TrieSeqs, value \in TrieValues :
          /\ trie' = HotkeysTrie_insert(trie, key_combos, value)
          /\ inserted' = (key_combos :> value) @@ inserted
    /\ trie_ops' = trie_ops + 1
    /\ UNCHANGED <<registry_vars, app_vars, index_vars>>

TrieClear ==
    /\ trie_ops < MaxTrieOps
    /\ trie' = HotkeysTrie_clear(trie)
    /\ inserted' = NoInserts
    /\ trie_ops' = trie_ops + 1
    /\ UNCHANGED <<registry_vars, app_vars, index_vars>>

----------------------------------------------------------------------------
(* The inputs of the assignment pass. *)

Entry(name, kind) == [name |-> name, kind |-> kind]

\* a directory's content as change_directory lists it (directories first, each
\* group by lower-cased name), below the parent placeholder
Universe ==
    << Entry(<<".", ".">>, "Directory"),
       Entry(<<"a", "d">>, "Directory"),
       Entry(<<"d", "a">>, "Directory"),
       Entry(<<"D", "d">>, "Directory"),
       Entry(<<"d", "w">>, "Directory"),
       Entry(<<"w", "d">>, "Directory"),
       Entry(<<"C", "d">>, "File"),
       Entry(<<"w", "a">>, "File") >>

RECURSIVE SubsequenceAt(_, _, _)
SubsequenceAt(seq, indexes, i) ==
    IF i > Len(seq) THEN <<>>
    ELSE IF i \in indexes
         THEN <<seq[i]>> \o SubsequenceAt(seq, indexes, i + 1)
         ELSE SubsequenceAt(seq, indexes, i + 1)

\* the listings of at most n entries: what a filter can leave of Universe
Listings(n) ==
    {SubsequenceAt(Universe, indexes, 1) :
        indexes \in {I \in SUBSET (1..Len(Universe)) : Cardinality(I) <= n}}

Queries == {<<>>, <<"d">>, <<"c">>}

PoolKeyCombos == {key_combo_from_char("a"), key_combo_from_char("w"),
                  key_combo_from_char("c"), key_combo_from_char("y")}

\* the pools: sequences of pairwise distinct key combos
Pools ==
    {pool \in SeqsUpTo(PoolKeyCombos, MaxPool) :
        \A i, j \in 1..Len(pool) : i # j => pool[i] # pool[j]}

Builds == {"debug", "release"}

StatusOf(outcome) ==
    IF outcome = "returned" THEN "done"
    ELSE IF outcome = "panic" THEN "panicked"
    ELSE "hung"

\* a registry that still holds the entry hotkeys of an earlier pass
RegistryAfterEarlierPass ==
    assign_hotkeys(new_with_default_system_hotkeys,
                   render_data_of(SubSeq(Universe, 2, 4), <<>>),
                   <<key_combo_from_char("w"), key_combo_from_char("c")>>,
                   "release").registry

\* the trie-level variables, where no trie-level operation runs
TrieIdle ==
    /\ trie = HotkeysTrie_new
    /\ inserted = NoInserts
    /\ trie_ops = 0

\* the interactive loop, where no App runs
AppIdle ==
    /\ app = None
    /\ app_pc = "idle"
    /\ last_keystroke = None
    /\ keystrokes = 0

\* the directory index, where none is loaded
IndexIdle ==
    /\ index_table = None
    /\ index_file = <<>>
    /\ existing_paths = {}
    /\ now = 0
    /\ z_call = None
    /\ index_ops = 0
    /\ index_call = None
    /\ peer_table = None

\* the registry and the pass, where neither is used
RegistryIdle ==
    /\ hotkeys_registry = new_with_default_system_hotkeys
    /\ entries = <<>>
    /\ search_query = <<>>
    /\ preferred_key_combos_in_order = <<>>
    /\ entry_render_data = <<>>
    /\ status = "ready"
    /\ registry_ops = 0

AssignInit ==
    /\ TrieIdle
    /\ AppIdle
    /\ IndexIdle
    /\ hotkeys_registry \in {new_with_default_system_hotkeys, RegistryAfterEarlierPass}
    /\ entries \in Listings(MaxEntries)
    /\ search_query \in Queries
    /\ preferred_key_combos_in_order \in Pools
    /\ entry_render_data = <<>>
    /\ status = "ready"
    /\ registry_ops = 0

\* one pass: the render data are built from the entries and assign_hotkeys runs
AssignHotkeys ==
    /\ status = "ready"
    /\ \E build \in Builds :
          LET pass == assign_hotkeys(hotkeys_registry,
                                     render_data_of(entries, search_query),
                                     preferred_key_combos_in_order, build)
          IN /\ hotkeys_registry' = pass.registry
             /\ entry_render_data' = pass.entry_render_data
             /\ status' = StatusOf(pass.outcome)
    /\ UNCHANGED <<entries, search_query, preferred_key_combos_in_order, registry_ops>>
    /\ UNCHANGED <<trie_vars, app_vars, index_vars>>

AssignNext == AssignHotkeys

SpecAssign == AssignInit /\ [][AssignNext]_vars

----------------------------------------------------------------------------
(* What the claims about one assignment pass speak of, read off the state the *)
(* pass leaves.                                                             *)

PassOver == status # "ready"

\* the positions (from 1) of the entries that carry a key sequence
AssignedPositions ==
    {i \in 1..Len(entry_render_data) : entry_render_data[i].key_combo_sequence.some}

SequenceOf(i) == entry_render_data[i].key_combo_sequence.val

\* the positions of the directory entries, the ones the pass selects
DirectoryPositions ==
    {i \in 1..Len(entry_render_data) : entry_render_data[i].kind = "Directory"}

\* the illegal characters of the rendered entries, files included
IllegalChars ==
    {c \in {"a", "c", "d", "w", "y", "."} :
        \E i \in 1..Len(entry_render_data) :
            entry_render_data[i].illegal_char_for_hotkey = Some(c)}

\* the positions of the pool whose key is not illegal
AvailablePositions ==
    {k \in 1..Len(preferred_key_combos_in_order) :
        preferred_key_combos_in_order[k].key_code \notin IllegalChars}

\* the k-th available key (k from 1), in pool order
AvailableKey(k) ==
    preferred_key_combos_in_order[
        CHOOSE p \in AvailablePositions :
            Cardinality({q \in AvailablePositions : q < p}) = k - 1]

P == Cardinality(AvailablePositions)

N == Cardinality(DirectoryPositions)

\* the bindings of a trie: the pairs <<sequence, value>> it maps
RECURSIVE BindingsFrom(_, _)
BindingsFrom(node, path) ==
    (IF node.value.some THEN {<<path, node.value.val>>} ELSE {})
    \cup UNION {BindingsFrom(node.children[k], Append(path, k)) : k \in DOMAIN node.children}

Bindings(t) == BindingsFrom(t.root, <<>>)

\* the n-th (from 0) sequence of length len over the available keys, in pool
\* order with the first symbol varying slowest
NthSequence(n, len) ==
    [j \in 1..len |-> AvailableKey(((n \div (P ^ (len - j))) % P) + 1)]

\* the smallest L >= 1 with P^L >= N
SmallestLength == CHOOSE L \in 1..(N + 1) : P ^ L >= N /\ (L = 1 \/ P ^ (L - 1) < N)

----------------------------------------------------------------------------
(* Claims about the assignment pass, checked under SpecAssign. *)

C3_NoIllegalKeyAssigned ==
    PassOver =>
        \A i \in AssignedPositions : \A k \in 1..Len(SequenceOf(i)) :
            \A e \in 1..Len(entry_render_data) :
                entry_render_data[e].illegal_char_for_hotkey.some =>
                    SequenceOf(i)[k].key_code
                        # entry_render_data[e].illegal_char_for_hotkey.val

\* a pass that assigned sequences while a pool key was the illegal character of
\* a file and another the character after a search hit
C3_Witness ==
    /\ status = "done"
    /\ AssignedPositions # {}
    /\ search_query # <<>>
    /\ \E e \in 1..Len(entry_render_data) :
          /\ entry_render_data[e].kind = "File"
          /\ entry_render_data[e].illegal_char_for_hotkey = Some("w")
          /\ \E k \in 1..Len(preferred_key_combos_in_order) :
                preferred_key_combos_in_order[k].key_code = "w"
    /\ \E e \in 1..Len(entry_render_data) :
          /\ entry_render_data[e].search_hit # <<>>
          /\ entry_render_data[e].illegal_char_for_hotkey = Some("a")
          /\ \E k \in 1..Len(preferred_key_combos_in_order) :
                preferred_key_combos_in_order[k].key_code = "a"

\* C4: only entries whose kind is Directory and that are not the parent
\* placeholder get a key sequence: a file or the placeholder carries none and
\* no action of the entry tier carries its index.
C4_OnlyRealDirectoriesAssigned ==
    PassOver =>
        \A i \in 1..Len(entry_render_data) :
            (entry_render_data[i].kind # "Directory" \/ entry_render_data[i].is_dynamic) =>
                /\ ~entry_render_data[i].key_combo_sequence.some
                /\ \A b \in Bindings(hotkeys_registry.entry_hotkeys) :
                      b[2] # ChangeDirectoryToEntryWithIndex(i - 1)

C6_TooFewKeysAssignsNothing ==
    (PassOver /\ P < 2 /\ N > 1) =>
        /\ status = "done"
        /\ AssignedPositions = {}
        /\ hotkeys_registry.entry_hotkeys = HotkeysTrie_new
        /\ hotkeys_registry.entry_hotkeys_count = 0

\* a pass with exactly one available key and several directories
C6_Witness ==
    /\ status = "done"
    /\ P = 1
    /\ N >= 2
    /\ Len(preferred_key_combos_in_order) >= 2

\* C7: the pass ends without a panic for every pool and every entry list, and
\* with no available key and one directory it ends with nothing assigned.
C7_PassNeverPanics ==
    /\ status \in {"ready", "done"}
    /\ (PassOver /\ P = 0 /\ N = 1) => AssignedPositions = {}

----------------------------------------------------------------------------
(* Registry-level behaviours: after setup, any sequence of                  *)
(* register_entry_hotkey, clear_entry_hotkeys and assign_hotkeys.           *)

\* the sequences registered by hand: system sequences, a prefix and an
\* extension of one, and pool keys
RegistrySeqs ==
    { <<key_combo_from_char("g"), key_combo_from_char("g")>>,
      <<key_combo_from_char("g")>>,
      <<key_combo_from_char("j")>>,
      <<key_combo_from_char("j"), key_combo_from_char("a")>>,
      <<KeyComboFrom("Esc", "NONE")>>,
      <<key_combo_from_char("a")>>,
      <<>> }

RegistryValues == {ChangeDirectoryToEntryWithIndex(0), ChangeDirectoryToEntryWithIndex(1)}

\* the listings of the passes made between the other operations: the runs of
\* at most n consecutive entries of Universe
RegistryListings(n) ==
    {SubSeq(Universe, i, j) :
        i \in 1..Len(Universe), j \in 0..Len(Universe)} \cap Listings(n)

RegistryPool == <<key_combo_from_char("a"), key_combo_from_char("w"),
                  key_combo_from_char("c")>>

RegistryInit ==
    /\ TrieIdle
    /\ AppIdle
    /\ IndexIdle
    /\ hotkeys_registry = new_with_default_system_hotkeys
    /\ entries = <<>>
    /\ search_query = <<>>
    /\ preferred_key_combos_in_order = RegistryPool
    /\ entry_render_data = <<>>
    /\ status = "ready"
    /\ registry_ops = 0

Running == status \in {"ready", "done"} /\ registry_ops < MaxRegistryOps

RegisterEntryHotkey ==
    /\ Running
    /\ \E key_combos \in RegistrySeqs, value \in RegistryValues :
          hotkeys_registry' = register_entry_hotkey(hotkeys_registry, key_combos, value)
    /\ registry_ops' = registry_ops + 1
    /\ UNCHANGED <<entries, search_query, preferred_key_combos_in_order,
                   entry_render_data, status>>
    /\ UNCHANGED <<trie_vars, app_vars, index_vars>>

ClearEntryHotkeys ==
    /\ Running
    /\ hotkeys_registry' = clear_entry_hotkeys(hotkeys_registry)
    /\ registry_ops' = registry_ops + 1
    /\ UNCHANGED <<entries, search_query, preferred_key_combos_in_order,
                   entry_render_data, status>>
    /\ UNCHANGED <<trie_vars, app_vars, index_vars>>

\* a redraw: new render data are built and assign_hotkeys runs on them
RedrawAssignHotkeys ==
    /\ Running
    /\ \E listing \in RegistryListings(MaxRegistryEntries), build \in Builds :
          LET pass == assign_hotkeys(hotkeys_registry, render_data_of(listing, <<>>),
                                     preferred_key_combos_in_order, build)
          IN /\ entries' = listing
             /\ hotkeys_registry' = pass.registry
             /\ entry_render_data' = pass.entry_render_data
             /\ status' = StatusOf(pass.outcome)
    /\ registry_ops' = registry_ops + 1
    /\ UNCHANGED <<search_query, preferred_key_combos_in_order>>
    /\ UNCHANGED <<trie_vars, app_vars, index_vars>>

RegistryNext == RegisterEntryHotkey \/ ClearEntryHotkeys \/ RedrawAssignHotkeys

SpecRegistry == RegistryInit /\ [][RegistryNext]_vars

----------------------------------------------------------------------------
(* Claims about the registry lookups, checked under SpecRegistry. *)

\* C8: for every context c and every sequence s bound in the system trie of c,
\* get_hotkey_value(c, s) is the system tier's value and get_hotkey_node(c, s)
\* the system tier's node, whatever the entry tier holds.
C8_SystemHotkeysTakePrecedence ==
    \A c \in DOMAIN hotkeys_registry.system_hotkeys :
        \A b \in Bindings(hotkeys_registry.system_hotkeys[c]) :
            /\ get_hotkey_value(hotkeys_registry, c, b[1]) = Some(b[2])
            /\ get_hotkey_node(hotkeys_registry, c, b[1])
                  = HotkeysTrie_get_node(hotkeys_registry.system_hotkeys[c], b[1])
            /\ get_hotkey_node(hotkeys_registry, c, b[1]).val.value = Some(b[2])

\* a system sequence of the Normal context that the entry tier binds too, to
\* another action and with a child below it
C8_Witness ==
    \E b \in Bindings(hotkeys_registry.system_hotkeys["Normal"]) :
        LET entry_node == HotkeysTrie_get_node(hotkeys_registry.entry_hotkeys, b[1])
        IN /\ entry_node.some
           /\ entry_node.val.value.some
           /\ entry_node.val.value # Some(b[2])
           /\ DOMAIN entry_node.val.children # {}

\* C11: register_entry_hotkey, clear_entry_hotkeys and assign_hotkeys leave the
\* system tier alone: every system trie and system_hotkeys_count are those of
\* new_with_default_system_hotkeys in every reachable state.
C11_SystemTierNeverMutated ==
    /\ hotkeys_registry.system_hotkeys = new_with_default_system_hotkeys.system_hotkeys
    /\ hotkeys_registry.system_hotkeys_count = Len(DefaultSystemHotkeys)

\* the entry tier was filled by a pass and then by a registration that binds a
\* system sequence of the Normal context
C11_Witness ==
    /\ registry_ops = MaxRegistryOps
    /\ \E i \in DOMAIN entry_render_data : entry_render_data[i].key_combo_sequence.some
    /\ hotkeys_registry.entry_hotkeys_count
          > Cardinality({i \in DOMAIN entry_render_data :
                            entry_render_data[i].key_combo_sequence.some})
    /\ \E b \in Bindings(hotkeys_registry.system_hotkeys["Normal"]) :
          HotkeysTrie_get_value(hotkeys_registry.entry_hotkeys, b[1]).some

TrieInit ==
    /\ trie = HotkeysTrie_new
    /\ inserted = NoInserts
    /\ trie_ops = 0
    /\ RegistryIdle
    /\ AppIdle
    /\ IndexIdle

TrieNext == TrieInsert \/ TrieClear

SpecTrie == TrieInit /\ [][TrieNext]_vars

----------------------------------------------------------------------------
(* Claims about the trie, checked under SpecTrie. *)

\* C9: the trie is the finite map of the inserts made since the last clear:
\* get_value(s) is the value of the latest insert of s, and None for a
\* sequence not inserted, be it a prefix or an extension of inserted ones.
C9_TrieIsFiniteMap ==
    \A s \in TrieLookups :
        HotkeysTrie_get_value(trie, s)
            = IF s \in DOMAIN inserted THEN Some(inserted[s]) ELSE None

\* after MaxTrieOps operations: an inserted two-key sequence whose proper
\* prefix and whose extension were not inserted, next to an inserted one-key
\* sequence on another branch
C9_Witness ==
    /\ trie_ops = MaxTrieOps
    /\ \E s \in DOMAIN inserted, t \in TrieLookups :
          /\ Len(s) = 2
          /\ inserted[s] = 2
          /\ IsPrefix(s, t) /\ s # t /\ t \notin DOMAIN inserted
          /\ SubSeq(s, 1, 1) \notin DOMAIN inserted
          /\ \E u \in DOMAIN inserted : Len(u) = 1 /\ u[1] # s[1]

\* C10 as claimed: get_node(s) returns a node exactly when s is a prefix of a
\* sequence inserted since the last clear; the node has a value exactly when s
\* was inserted and children exactly when s is a proper prefix of an inserted
\* sequence.
C10_Original ==
    \A s \in TrieLookups :
        LET node == HotkeysTrie_get_node(trie, s)
        IN /\ node.some <=> \E t \in DOMAIN inserted : IsPrefix(s, t)
           /\ node.some =>
                 /\ node.val.value.some <=> s \in DOMAIN inserted
                 /\ DOMAIN node.val.children # {}
                       <=> \E t \in DOMAIN inserted : IsPrefix(s, t) /\ s # t

\* C10, amended: get_node(s) returns a node exactly when s is empty (the root)
\* or a prefix of a sequence inserted since the last clear; the node has a
\* value exactly when s was inserted and children exactly when s is a proper
\* prefix of an inserted sequence.
C10_NodeIffPrefix ==
    \A s \in TrieLookups :
        LET node == HotkeysTrie_get_node(trie, s)
        IN /\ node.some <=> (s = <<>> \/ \E t \in DOMAIN inserted : IsPrefix(s, t))
           /\ node.some =>
                 /\ node.val.value.some <=> s \in DOMAIN inserted
                 /\ DOMAIN node.val.children # {}
                       <=> \E t \in DOMAIN inserted : IsPrefix(s, t) /\ s # t

\* a trie with a dead end, a live prefix and a complete match that also has
\* children
C10_Witness ==
    \E dead, live, full \in TrieLookups \ {<<>>} :
        /\ ~HotkeysTrie_get_node(trie, dead).some
        /\ HotkeysTrie_get_node(trie, live).some
        /\ ~HotkeysTrie_get_node(trie, live).val.value.some
        /\ HotkeysTrie_get_node(trie, full).some
        /\ HotkeysTrie_get_node(trie, full).val.value.some
        /\ DOMAIN HotkeysTrie_get_node(trie, full).val.children # {}

----------------------------------------------------------------------------
(* The interactive loop (src/src/app.rs): the App, its key handlers and the *)
(* redraw that rebuilds the entry hotkeys.                                  *)

\* App::INACTIVITY_TIMEOUT, in milliseconds
INACTIVITY_TIMEOUT == 500

\* number of key events handled in one behaviour
MaxKeystrokes == 4

\* longest search text typed in one behaviour
MaxSearchLen == 3

\* number of directories in the directory the App starts in
MaxAppDirs == 3

\* number of pool keys the redraw hands to assign_hotkeys
MaxAppPool == 2

\* the key codes used here that are not KeyCode::Char
NamedKeyCodes == {"Esc", "Enter", "Backspace", "Home", "End", "Up", "Down", "Tab"}

\* if let KeyCode::Char(c) = key_code
IsChar(key_code) == key_code \notin NamedKeyCodes

PREFERRED_KEY_COMBOS_IN_ORDER_with_j_first ==
    [i \in 1..31 |->
        key_combo_from_char(
            <<"j", "a", "w", "e", "r", "t", "z", "x", "c", "v", "b", "y", "u", "i", "o",
              "p", "n", "m", ",", "1", "2", "3", "4", "5", "6", "7", "8", "9", "0",
              "-", "=">>[i])]

PREFERRED_KEY_COMBOS_IN_ORDER ==
    [i \in 1..31 |->
        key_combo_from_char(
            <<"a", "s", "w", "e", "r", "t", "z", "x", "c", "v", "b", "y", "u", "i", "o",
              "p", "n", "m", ",", "1", "2", "3", "4", "5", "6", "7", "8", "9", "0",
              "-", "=">>[i])]

\* the pool of the redraws of this model: the first MaxAppPool preferred keys,
\* so that MaxAppDirs directories need sequences of two keys
AppPool == SubSeq(PREFERRED_KEY_COMBOS_IN_ORDER, 1, MaxAppPool)

(* SearchInput *)

SearchInput_default == [value |-> <<>>, index |-> 0]

SearchInput_clear(search_input) == [value |-> <<>>, index |-> 0]

SearchInput_push(search_input, c) ==
    [value |-> Append(search_input.value, c), index |-> search_input.index + 1]

\* String::pop removes the last char, if any; index -= 1 (the callers test index > 0)
SearchInput_pop_keeping_index(search_input) ==
    [value |-> IF search_input.value = <<>> THEN <<>>
               ELSE SubSeq(search_input.value, 1, Len(search_input.value) - 1),
     index |-> search_input.index]

SearchInput_pop(search_input) ==
    [value |-> IF search_input.value = <<>> THEN <<>>
               ELSE SubSeq(search_input.value, 1, Len(search_input.value) - 1),
     index |-> search_input.index - 1]

RECURSIVE SearchInput_push_all(_, _)
SearchInput_push_all(search_input, chars) ==
    IF chars = <<>> THEN search_input
    ELSE SearchInput_push_all(SearchInput_push(search_input, Head(chars)), Tail(chars))

(* EntryList *)

EntryList_default == [items |-> <<>>, filtered_indices |-> None]

get_filtered_entries(entry_list) ==
    IF entry_list.filtered_indices.some
    THEN [k \in 1..Len(entry_list.filtered_indices.val) |->
             entry_list.items[entry_list.filtered_indices.val[k] + 1]]
    ELSE entry_list.items

\* str::contains
contains(haystack, needle) == find(haystack, needle).some

EntryList_update_filtered_indices(entry_list, value) ==
    LET lowered == to_lowercase(value)
    IN IF lowered = <<>>
       THEN [entry_list EXCEPT !.filtered_indices = None]
       ELSE [entry_list EXCEPT !.filtered_indices =
                Some(SelectSeq([i \in 1..Len(entry_list.items) |-> i - 1],
                               LAMBDA i : contains(to_lowercase(entry_list.items[i + 1].name),
                                                   lowered)))]

(* ListState (ratatui): the selected index *)

\* stands for usize::MAX, which select_last stores
usize_MAX == 2147483647

ListState_default == [selected |-> None]

select_next(list_state) ==
    [selected |-> Some(IF ~list_state.selected.some THEN 0
                       ELSE IF list_state.selected.val = usize_MAX THEN usize_MAX
                       ELSE list_state.selected.val + 1)]

select_previous(list_state) ==
    [selected |-> Some(IF ~list_state.selected.some THEN usize_MAX
                       ELSE IF list_state.selected.val = 0 THEN 0
                       ELSE list_state.selected.val - 1)]

select_first(list_state) == [selected |-> Some(0)]

select_last(list_state) == [selected |-> Some(usize_MAX)]

\* Option<usize>::unwrap_or_default
unwrap_or_default(selected) == IF selected.some THEN selected.val ELSE 0

(* The file system the App browses: a path is the sequence of its names. *)

DirNames == << <<"d", "z">>, <<"d", "x">>, <<"d", "y">>, <<"d", "v">>, <<"d", "q">> >>

\* the directory the process is started in
AppStartDirectory == <<>>

\* std::fs::read_dir with Entry::try_from on each item: the start directory
\* holds one file and MaxAppDirs empty directories, in the order the OS gives
read_dir(path) ==
    IF path = AppStartDirectory
    THEN <<[name |-> <<"f", "q">>, kind |-> "File", path |-> <<<<"f", "q">>>>]>>
         \o [i \in 1..MaxAppDirs |->
                [name |-> DirNames[i], kind |-> "Directory", path |-> <<DirNames[i]>>]]
    ELSE <<>>

\* Path::parent
parent(path) == IF path = <<>> THEN None ELSE Some(SubSeq(path, 1, Len(path) - 1))

\* the chars of the names, in code point order
CharsInOrder == <<".", "a", "c", "d", "f", "q", "s", "v", "w", "x", "y", "z">>

CharRank(c) == CHOOSE i \in 1..Len(CharsInOrder) : CharsInOrder[i] = c

\* a < b for strings, as partial_cmp orders them
RECURSIVE str_lt(_, _)
str_lt(a, b) ==
    IF b = <<>> THEN FALSE
    ELSE IF a = <<>> THEN TRUE
    ELSE IF Head(a) # Head(b) THEN CharRank(Head(a)) < CharRank(Head(b))
    ELSE str_lt(Tail(a), Tail(b))

\* the comparator of change_directory is Ordering::Less
sorts_before(a, b) ==
    IF a.kind = b.kind
    THEN str_lt(to_lowercase(a.name), to_lowercase(b.name))
    ELSE a.kind = "Directory"

\* Vec::sort_by, a stable sort
RECURSIVE sort_by(_)
sort_by(items) ==
    IF items = <<>> THEN <<>>
    ELSE LET last == items[Len(items)]
             sorted == sort_by(SubSeq(items, 1, Len(items) - 1))
         IN IF \A j \in 1..Len(sorted) : ~sorts_before(last, sorted[j])
            THEN Append(sorted, last)
            ELSE LET first == CHOOSE i \in 1..Len(sorted) :
                                 /\ sorts_before(last, sorted[i])
                                 /\ \A j \in 1..(i - 1) : ~sorts_before(last, sorted[j])
                 IN SubSeq(sorted, 1, first - 1) \o <<last>>
                    \o SubSeq(sorted, first, Len(sorted))

(* App *)

App_default ==
    [should_exit |-> FALSE,
     list_mode |-> "Directory",
     entry_list |-> EntryList_default,
     list_state |-> ListState_default,
     current_directory |-> <<>>,
     show_help |-> FALSE,
     input_mode |-> "Normal",
     search_input |-> SearchInput_default,
     collected_key_combos |-> <<>>,
     last_key_press_time |-> None]

change_directory(a, path) ==
    [a EXCEPT
        !.list_state = ListState_default,
        !.should_exit = FALSE,
        !.list_mode = "Directory",
        !.entry_list = [items |-> sort_by(read_dir(path)), filtered_indices |-> None],
        !.current_directory = path,
        !.search_input = SearchInput_clear(@)]

\* the App of this model is built on an empty DirectoryIndex, so
\* get_all_entries_ordered_by_rank returns no path and the list is empty
change_to_frecent(a) ==
    [a EXCEPT
        !.list_state = ListState_default,
        !.should_exit = FALSE,
        !.list_mode = "Frecent",
        !.entry_list = EntryList_default,
        !.current_directory = AppStartDirectory,
        !.search_input = SearchInput_clear(@)]

change_list_mode(a, mode) ==
    IF a.list_mode = mode THEN a
    ELSE IF mode = "Directory"
         THEN change_directory([a EXCEPT !.list_mode = mode], a.current_directory)
         ELSE change_to_frecent([a EXCEPT !.list_mode = mode])

\* App::try_new(ListMode::Directory, DirectoryIndex::default())
try_new == change_directory(App_default, AppStartDirectory)

change_directory_to_entry_index_counting_from_one(a, index) ==
    LET filtered == get_filtered_entries(a.entry_list)
    IN IF index \in DOMAIN filtered
       THEN IF filtered[index].kind = "Directory"
            THEN change_directory(a, filtered[index].path)
            ELSE [a EXCEPT !.should_exit = TRUE]
       ELSE a

change_directory_to_entry_index(a, index) ==
    LET filtered == get_filtered_entries(a.entry_list)
    IN IF index + 1 \in DOMAIN filtered
       THEN IF filtered[index + 1].kind = "Directory"
            THEN change_directory(a, filtered[index + 1].path)
            ELSE [a EXCEPT !.should_exit = TRUE]
       ELSE a

App_update_filtered_indices(a) ==
    [a EXCEPT
        !.entry_list = EntryList_update_filtered_indices(@, a.search_input.value),
        !.list_state = ListState_default]

\* the chars of the key combos whose key code is KeyCode::Char, in order
chars_of(key_combos) ==
    LET char_combos == SelectSeq(key_combos, LAMBDA key_combo : IsChar(key_combo.key_code))
    IN [i \in 1..Len(char_combos) |-> char_combos[i].key_code]

\* the match on the action in handle_key_event_for_search_mode
search_mode_action(a, action) ==
    CASE action.tag = "ChangeDirectoryToEntryWithIndex" ->
            [change_directory_to_entry_index(a, action.index) EXCEPT
                !.input_mode = "Normal",
                !.search_input = SearchInput_clear(@)]
      [] action.tag = "SearchInputBackspace" ->
            IF a.search_input.index > 0
            THEN App_update_filtered_indices(
                     [a EXCEPT !.search_input = SearchInput_pop(@)])
            ELSE [a EXCEPT !.input_mode = "Normal"]
      [] action.tag = "SelectNext" ->
            [a EXCEPT !.list_state = select_next(@)]
      [] action.tag = "SelectPrevious" ->
            [a EXCEPT !.list_state = select_previous(@)]
      [] action.tag = "ExitSearchInput" ->
            [a EXCEPT !.input_mode = "Normal"]
      [] action.tag = "ChangeDirectoryToSelectedEntry" ->
            IF /\ a.entry_list.filtered_indices.some
               /\ a.entry_list.filtered_indices.val # <<>>
            THEN change_directory_to_entry_index(
                     [a EXCEPT !.input_mode = "Normal",
                               !.search_input = SearchInput_clear(@)],
                     unwrap_or_default(a.list_state.selected))
            ELSE a
      [] OTHER -> a

\* the result of a key handler: the App it leaves, and what it did with the
\* keys: the actions it executed and the chars it pushed into the search text
Handled(a, executed, flushed) == [app |-> a, executed |-> executed, flushed |-> flushed]

\* if let Some(t) = last_key_press_time { if t.elapsed() >= INACTIVITY_TIMEOUT
is_stale_only_past_timeout(a, elapsed) ==
    a.last_key_press_time.some /\ elapsed > INACTIVITY_TIMEOUT

is_stale(a, elapsed) ==
    a.last_key_press_time.some /\ elapsed >= INACTIVITY_TIMEOUT

\* collected_key_combos.clear(); last_key_press_time = None
clear_collected_keeping_timer(a) ==
    [a EXCEPT !.collected_key_combos = <<>>]

clear_collected_keeping_keys(a) ==
    [a EXCEPT !.last_key_press_time = None]

clear_collected(a) ==
    [a EXCEPT !.collected_key_combos = <<>>, !.last_key_press_time = None]

\* the chars a dead end unrolls into the search text: those of all collected
\* keys when there are several, else that of the key just pressed
unrolled_chars_last_key_only(collected, key_combo) ==
    IF IsChar(key_combo.key_code) THEN <<key_combo.key_code>> ELSE <<>>

unrolled_chars(collected, key_combo) ==
    IF Len(collected) > 1
    THEN chars_of(collected)
    ELSE IF IsChar(key_combo.key_code) THEN <<key_combo.key_code>> ELSE <<>>

handle_key_event_for_search_mode_flushing_every_key(a, registry, key_combo, elapsed) ==
    LET collected == Append(a.collected_key_combos, key_combo)
        pressed == [a EXCEPT !.last_key_press_time = Some("Instant"),
                             !.collected_key_combos = collected]
        chars == unrolled_chars(collected, key_combo)
    IN Handled(
           clear_collected(
               App_update_filtered_indices(
                   [pressed EXCEPT !.search_input = SearchInput_push_all(@, chars)])),
           <<>>, chars)

handle_key_event_for_search_mode(a, registry, key_combo, elapsed) ==
    IF is_stale(a, elapsed)
    THEN LET chars == chars_of(a.collected_key_combos)
                      \o (IF IsChar(key_combo.key_code) THEN <<key_combo.key_code>> ELSE <<>>)
         IN Handled(
                clear_collected(
                    App_update_filtered_indices(
                        [a EXCEPT !.search_input = SearchInput_push_all(@, chars)])),
                <<>>, chars)
    ELSE LET collected == Append(a.collected_key_combos, key_combo)
             pressed == [a EXCEPT !.last_key_press_time = Some("Instant"),
                                  !.collected_key_combos = collected]
             maybe_node == get_hotkey_node(registry, "Search", collected)
         IN IF maybe_node.some
            THEN IF maybe_node.val.value.some
                 THEN Handled(
                          search_mode_action(clear_collected(pressed),
                                             maybe_node.val.value.val),
                          <<maybe_node.val.value.val>>, <<>>)
                 ELSE Handled(pressed, <<>>, <<>>)
            ELSE LET chars == unrolled_chars(collected, key_combo)
                 IN Handled(
                        clear_collected(
                            App_update_filtered_indices(
                                [pressed EXCEPT
                                    !.search_input = SearchInput_push_all(@, chars)])),
                        <<>>, chars)

\* the arm of Action::Exit in handle_key_event_for_normal_mode
normal_mode_exit(a) ==
    IF a.show_help THEN [a EXCEPT !.show_help = FALSE]
    ELSE IF a.search_input.value = <<>> THEN [a EXCEPT !.should_exit = TRUE]
    ELSE App_update_filtered_indices([a EXCEPT !.search_input = SearchInput_clear(@)])

\* the match on the action in handle_key_event_for_normal_mode
normal_mode_action(a, action) ==
    CASE action.tag = "SelectNext" ->
            [a EXCEPT !.show_help = FALSE, !.list_state = select_next(@)]
      [] action.tag = "SelectPrevious" ->
            [a EXCEPT !.show_help = FALSE, !.list_state = select_previous(@)]
      [] action.tag = "SelectFirst" ->
            [a EXCEPT !.show_help = FALSE, !.list_state = select_first(@)]
      [] action.tag = "SelectLast" ->
            [a EXCEPT !.show_help = FALSE, !.list_state = select_last(@)]
      [] action.tag = "SwitchToListMode" ->
            change_list_mode([a EXCEPT !.show_help = FALSE], action.mode)
      [] action.tag = "ToggleHelp" ->
            [a EXCEPT !.show_help = ~@]
      [] action.tag = "SwitchToInputMode" ->
            App_update_filtered_indices(
                [a EXCEPT !.show_help = FALSE,
                          !.input_mode = action.mode,
                          !.search_input = SearchInput_clear(@)])
      [] action.tag = "ResetSearchInput" ->
            App_update_filtered_indices([a EXCEPT !.search_input = SearchInput_clear(@)])
      [] action.tag = "ChangeDirectoryToSelectedEntry" ->
            change_directory_to_entry_index([a EXCEPT !.show_help = FALSE],
                                            unwrap_or_default(a.list_state.selected))
      [] action.tag = "ChangeDirectoryToParent" ->
            IF parent(a.current_directory).some
            THEN change_directory([a EXCEPT !.show_help = FALSE],
                                  parent(a.current_directory).val)
            ELSE [a EXCEPT !.show_help = FALSE]
      [] action.tag = "ChangeDirectoryToEntryWithIndex" ->
            change_directory_to_entry_index([a EXCEPT !.show_help = FALSE], action.index)
      [] action.tag = "Exit" -> normal_mode_exit(a)
      [] OTHER -> a

handle_key_event_for_normal_mode(a, registry, key_combo, elapsed) ==
    LET fresh == IF is_stale(a, elapsed) THEN clear_collected(a) ELSE a
        pressed == [fresh EXCEPT !.last_key_press_time = Some("Instant"),
                                 !.collected_key_combos = Append(@, key_combo)]
        maybe_action == get_hotkey_value(registry, "Normal", pressed.collected_key_combos)
    IN IF ~maybe_action.some
       THEN Handled(pressed, <<>>, <<>>)
       ELSE Handled(normal_mode_action(clear_collected(pressed), maybe_action.val),
                    <<maybe_action.val>>, <<>>)

handle_key_event(a, registry, key_combo, elapsed) ==
    IF a.input_mode = "Search"
    THEN handle_key_event_for_search_mode(a, registry, key_combo, elapsed)
    ELSE handle_key_event_for_normal_mode(a, registry, key_combo, elapsed)

\* List's StatefulWidget::render (ratatui) keeps the selection within the items
clamp_selection(list_state, len) ==
    IF list_state.selected.some /\ list_state.selected.val >= len
    THEN [selected |-> Some(len - 1)]
    ELSE list_state

\* App::render_list: the render data of the filtered entries, the entry hotkeys
\* and the selection; a record of the App, the registry and the render data it
\* leaves, and of how assign_hotkeys ended
render_list_assigning_in_every_mode(a, registry, build) ==
    LET filtered == get_filtered_entries(a.entry_list)
        render_data == render_data_of(filtered, a.search_input.value)
        pass == assign_hotkeys(registry, render_data, AppPool, build)
        list_state == IF pass.entry_render_data = <<>>
                      THEN a.list_state
                      ELSE clamp_selection(IF a.list_state.selected.some
                                           THEN a.list_state
                                           ELSE select_first(a.list_state),
                                           Len(pass.entry_render_data))
    IN [app |-> [a EXCEPT !.list_state = list_state],
        registry |-> pass.registry,
        entry_render_data |-> pass.entry_render_data,
        filtered |-> filtered,
        outcome |-> pass.outcome]

render_list(a, registry, build) ==
    LET filtered == get_filtered_entries(a.entry_list)
        render_data == render_data_of(filtered, a.search_input.value)
        pass == IF \/ a.input_mode = "Normal"
                   \/ (a.input_mode = "Search" /\ a.search_input.value # <<>>)
                THEN assign_hotkeys(registry, render_data, AppPool, build)
                ELSE [registry |-> clear_entry_hotkeys(registry),
                      entry_render_data |-> render_data,
                      outcome |-> "returned"]
        list_state == IF pass.entry_render_data = <<>>
                      THEN a.list_state
                      ELSE clamp_selection(IF a.list_state.selected.some
                                           THEN a.list_state
                                           ELSE select_first(a.list_state),
                                           Len(pass.entry_render_data))
    IN [app |-> [a EXCEPT !.list_state = list_state],
        registry |-> pass.registry,
        entry_render_data |-> pass.entry_render_data,
        filtered |-> filtered,
        outcome |-> pass.outcome]

----------------------------------------------------------------------------
(* Behaviours of the interactive loop: App::run draws, then handles one event. *)

\* the keys pressed: a live prefix of the Normal context, the first two pool
\* keys, chars of the entry names ('d' of the directories, 'q' of the file;
\* 'd' is unbound in Normal mode and 'q' quits), the key of the help popup,
\* and the keys that enter, edit and leave the search and quit
AppKeyCombos ==
    { key_combo_from_char("g"), key_combo_from_char("q"),
      key_combo_from_char("a"), key_combo_from_char("s"), key_combo_from_char("d"),
      key_combo_from_char("/"), key_combo_from_char("?"),
      KeyComboFrom("Esc", "NONE"), KeyComboFrom("Enter", "NONE"),
      KeyComboFrom("Backspace", "NONE") }

KeyEventKinds == {"Press", "Release"}

\* t.elapsed() at a key event, in milliseconds: just below and at the timeout
Elapsed == {INACTIVITY_TIMEOUT - 1, INACTIVITY_TIMEOUT}

AppInit ==
    /\ TrieIdle
    /\ IndexIdle
    /\ hotkeys_registry = new_with_default_system_hotkeys
    /\ entries = <<>>
    /\ search_query = <<>>
    /\ preferred_key_combos_in_order = AppPool
    /\ entry_render_data = <<>>
    /\ status = "ready"
    /\ registry_ops = 0
    /\ app = try_new
    /\ app_pc = "draw"
    /\ last_keystroke = None
    /\ keystrokes = 0

\* terminal.draw: render_list rebuilds the render data and the entry hotkeys
Draw ==
    /\ app_pc = "draw"
    /\ \E build \in Builds :
          LET drawn == render_list(app, hotkeys_registry, build)
          IN /\ app' = drawn.app
             /\ hotkeys_registry' = drawn.registry
             /\ entry_render_data' = drawn.entry_render_data
             /\ entries' = drawn.filtered
             /\ search_query' = app.search_input.value
             /\ status' = StatusOf(drawn.outcome)
             /\ app_pc' = IF drawn.outcome = "returned" THEN "handle_events" ELSE "exited"
    /\ UNCHANGED <<preferred_key_combos_in_order, registry_ops, last_keystroke, keystrokes>>
    /\ UNCHANGED <<trie_vars, index_vars>>

\* handle_events: one key event; a key event that is not a press is ignored.
\* The handlers read t.elapsed() only when last_key_press_time is set
HandleKeyEvent ==
    /\ app_pc = "handle_events"
    /\ keystrokes < MaxKeystrokes
    /\ \E key_combo \in AppKeyCombos, kind \in KeyEventKinds,
          elapsed \in (IF app.last_key_press_time.some
                       THEN Elapsed ELSE {INACTIVITY_TIMEOUT}) :
          IF kind # "Press"
          THEN /\ app_pc' = "draw"
               /\ last_keystroke' = None
               /\ UNCHANGED <<app, keystrokes>>
          ELSE LET handled == handle_key_event(app, hotkeys_registry, key_combo, elapsed)
               IN /\ Len(handled.app.search_input.value) <= MaxSearchLen
                  /\ app' = handled.app
                  /\ app_pc' = IF handled.app.should_exit THEN "exited" ELSE "draw"
                  /\ last_keystroke' =
                        Some([input_mode |-> app.input_mode,
                              key_combo |-> key_combo,
                              elapsed |-> IF app.last_key_press_time.some
                                          THEN Some(elapsed) ELSE None,
                              collected_key_combos |-> app.collected_key_combos,
                              search_input |-> app.search_input,
                              entry_list |-> app.entry_list,
                              current_directory |-> app.current_directory,
                              show_help |-> app.show_help,
                              list_state |-> app.list_state,
                              executed |-> handled.executed,
                              flushed |-> handled.flushed])
                  /\ keystrokes' = keystrokes + 1
    /\ UNCHANGED <<hotkeys_registry, entries, search_query, preferred_key_combos_in_order,
                   entry_render_data, status, registry_ops>>
    /\ UNCHANGED <<trie_vars, index_vars>>

AppNext == Draw \/ HandleKeyEvent

SpecApp == AppInit /\ [][AppNext]_vars

----------------------------------------------------------------------------
(* Claims about the key handlers, checked under SpecApp. They read the      *)
(* state a key press leaves together with the record of that press.         *)

\* a key press was handled in the last step
JustHandled == last_keystroke.some /\ app_pc \in {"draw", "exited"}

LastKey == last_keystroke.val

\* the press came at least the timeout after the press that set the timer
LastKeyStale ==
    LastKey.elapsed.some /\ LastKey.elapsed.val >= INACTIVITY_TIMEOUT

\* the keys that were buffered before the press and are not stale
LastKeyCarried == IF LastKeyStale THEN <<>> ELSE LastKey.collected_key_combos

\* the buffered sequence after the press
LastKeyBuffered == Append(LastKeyCarried, LastKey.key_combo)

\* a node without value that has children
IsLivePrefix(node) ==
    node.some /\ ~node.val.value.some /\ DOMAIN node.val.children # {}

KeyG == key_combo_from_char("g")

\* C12: in Normal mode a first 'g' on an empty buffer executes nothing and is
\* buffered; a second 'g' less than the timeout later executes SelectFirst
\* exactly once and empties the buffer; a second 'g' at least the timeout later
\* executes nothing and leaves the buffer holding that 'g' alone.
C12_DoubleKeyWithinTimeout ==
    (JustHandled /\ LastKey.input_mode = "Normal" /\ LastKey.key_combo = KeyG) =>
        /\ LastKey.collected_key_combos = <<>> =>
              /\ LastKey.executed = <<>>
              /\ app.collected_key_combos = <<KeyG>>
        /\ (LastKey.collected_key_combos = <<KeyG>> /\ LastKey.elapsed.some) =>
              IF LastKey.elapsed.val < INACTIVITY_TIMEOUT
              THEN /\ LastKey.executed = <<Action("SelectFirst")>>
                   /\ app.collected_key_combos = <<>>
                   /\ app.list_state.selected = Some(0)
              ELSE /\ LastKey.executed = <<>>
                   /\ app.collected_key_combos = <<KeyG>>

\* a second 'g' pressed exactly the timeout after the first
C12_Witness ==
    /\ JustHandled
    /\ LastKey.input_mode = "Normal"
    /\ LastKey.key_combo = KeyG
    /\ LastKey.collected_key_combos = <<KeyG>>
    /\ LastKey.elapsed = Some(INACTIVITY_TIMEOUT)
    /\ LastKey.executed = <<>>

\* C13: in Normal mode a press whose buffered sequence has no node in the
\* registry leaves the key buffer empty, so that a bound key pressed after keys
\* that led to a dead end executes its action, also within the timeout.
C13_NormalModeDropsDeadEnd ==
    (JustHandled /\ LastKey.input_mode = "Normal") =>
        /\ ~get_hotkey_node(hotkeys_registry, "Normal", LastKeyBuffered).some
              => app.collected_key_combos = <<>>
        /\ (/\ LastKeyCarried # <<>>
            /\ ~get_hotkey_node(hotkeys_registry, "Normal", LastKeyCarried).some
            /\ get_hotkey_value(hotkeys_registry, "Normal", <<LastKey.key_combo>>).some)
              => LastKey.executed
                    = <<get_hotkey_value(hotkeys_registry, "Normal",
                                         <<LastKey.key_combo>>).val>>

\* C14: in Search mode a press whose buffered sequence has no node appends the
\* chars of all keys in the buffer (the keys buffered before, stale or not, and
\* the key pressed), in the order pressed, to the search text, recomputes the
\* filter from the new text, empties the buffer, unsets the timer and executes
\* nothing.
C14_SearchModeFlushesDeadEnd ==
    (/\ JustHandled /\ LastKey.input_mode = "Search"
     /\ ~get_hotkey_node(hotkeys_registry, "Search", LastKeyBuffered).some) =>
        LET chars == chars_of(Append(LastKey.collected_key_combos, LastKey.key_combo))
            text == LastKey.search_input.value \o chars
        IN /\ app.search_input.value = text
           /\ app.search_input.index = LastKey.search_input.index + Len(chars)
           /\ LastKey.flushed = chars
           /\ app.entry_list = EntryList_update_filtered_indices(LastKey.entry_list, text)
           /\ app.collected_key_combos = <<>>
           /\ ~app.last_key_press_time.some
           /\ LastKey.executed = <<>>
           /\ app.input_mode = "Search"

\* a dead end after a buffered live prefix: two chars are flushed at once
C14_Witness ==
    /\ JustHandled /\ LastKey.input_mode = "Search" /\ ~LastKeyStale
    /\ ~get_hotkey_node(hotkeys_registry, "Search", LastKeyBuffered).some
    /\ Len(LastKey.collected_key_combos) = 1
    /\ Len(LastKey.flushed) = 2
    /\ LastKey.search_input.value # <<>>

\* C15: in Search mode a press at least the timeout after the press that set
\* the timer flushes the stale keys only and is then handled as a fresh one-key
\* sequence: when the key is bound on its own, its action is executed.
C15_SearchModeHandlesKeyAfterTimeout ==
    (/\ JustHandled /\ LastKey.input_mode = "Search" /\ LastKeyStale
     /\ get_hotkey_value(hotkeys_registry, "Search", <<LastKey.key_combo>>).some) =>
        /\ LastKey.flushed = chars_of(LastKey.collected_key_combos)
        /\ LastKey.executed
              = <<get_hotkey_value(hotkeys_registry, "Search", <<LastKey.key_combo>>).val>>

\* C16: in both modes, when the sequence the handler looks up has a node with a
\* value, that action is executed exactly once, and afterwards the key buffer
\* is empty and the timer unset.
C16_BoundValueExecutedOnce ==
    (/\ JustHandled
     /\ ~(LastKey.input_mode = "Search" /\ LastKeyStale)
     /\ get_hotkey_node(hotkeys_registry, LastKey.input_mode, LastKeyBuffered).some
     /\ get_hotkey_node(hotkeys_registry, LastKey.input_mode,
                        LastKeyBuffered).val.value.some) =>
        /\ LastKey.executed
              = <<get_hotkey_node(hotkeys_registry, LastKey.input_mode,
                                  LastKeyBuffered).val.value.val>>
        /\ LastKey.flushed = <<>>
        /\ app.collected_key_combos = <<>>
        /\ ~app.last_key_press_time.some

\* in Search mode the second key of a two-key entry hotkey executes its action
C16_Witness ==
    /\ JustHandled
    /\ LastKey.input_mode = "Search"
    /\ ~LastKeyStale
    /\ Len(LastKey.collected_key_combos) = 1
    /\ Len(LastKey.executed) = 1
    /\ LastKey.executed[1].tag = "ChangeDirectoryToEntryWithIndex"
    /\ app.collected_key_combos = <<>>

\* C17: every buffered sequence resolves to exactly one of executed, flushed or
\* dropped: the keys a press leaves in the buffer are a live prefix of the
\* registry (which further presses can only extend along the trie, or
\* resolve), and no press both executes an action and flushes chars.
C17_EveryBufferResolves ==
    JustHandled =>
        /\ app.collected_key_combos # <<>> =>
              IsLivePrefix(get_hotkey_node(hotkeys_registry, app.input_mode,
                                           app.collected_key_combos))
        /\ ~(LastKey.executed # <<>> /\ LastKey.flushed # <<>>)

----------------------------------------------------------------------------
(* The directory index (src/src/index.rs): the table of visited             *)
(* directories and the query z.                                             *)

\* number of entries of the table the index is loaded with
MaxIndexEntries == 2

\* number of calls of z in one behaviour
MaxZCalls == 1

\* the reading of the clock when the index is loaded
LoadTime == 2

\* ranks are kept in units of 1/10000: 10000 is the rank 1.0
RankUnit == 10000

\* the entries of the loaded table: one pushed once at the time of loading
\* (rank 0.0), and ones pushed twice (rank 1.0) with the last push before the
\* time of loading, at it, and at a time the clock has not reached (the file
\* is read as it is found)
IndexEntries ==
    { [rank |-> 0, last_accessed |-> LoadTime],
      [rank |-> RankUnit, last_accessed |-> LoadTime - 1],
      [rank |-> RankUnit, last_accessed |-> LoadTime],
      [rank |-> RankUnit, last_accessed |-> LoadTime + 1] }

\* a path is the sequence of its components below the root, each a string
IndexPaths ==
    { << <<"c">> >>, << <<"c">>, <<"d">> >>, << <<"d">>, <<"c">> >>, << <<"C">> >> }

\* the queries given to z
IndexQueries == { <<"c">>, <<"C">>, <<"d">>, <<"x">> }

\* Path::to_string_lossy of an absolute path
RECURSIVE to_string_lossy(_)
to_string_lossy(path) ==
    IF path = <<>> THEN <<>>
    ELSE <<"/">> \o Head(path) \o to_string_lossy(Tail(path))

\* Path::starts_with: whole components, compared as they are written
starts_with(path, base) == IsPrefix(base, path)

\* Path::components().count(): the root and the components below it
components_count(path) == 1 + Len(path)

\* DirectoryIndexEntry::frecent_score. dx = now - last_accessed is a u64
\* subtraction: when last_accessed is later than now, a debug build panics and
\* a release build wraps to 2^64 - (last_accessed - now), which `as f64` rounds
\* to 2^64. The score 10000 * rank * (3.75 / ((0.0001 * dx + 1.0) + 0.25)) is
\* 37500 * rank / (dx + 12500) with the rank in units of 1/10000; it is kept as
\* the fraction num / den, in units of 37500, wrapped telling that den stands
\* for 2^64 + 12500.
frecent_score_ignoring_dx(entry, t, build) ==
    IF entry.last_accessed <= t
    THEN [panicked |-> FALSE, wrapped |-> FALSE, num |-> entry.rank, den |-> 12500]
    ELSE IF build = "debug"
         THEN [panicked |-> TRUE]
         ELSE [panicked |-> FALSE, wrapped |-> TRUE, num |-> entry.rank, den |-> 12500]

frecent_score(entry, t, build) ==
    IF entry.last_accessed <= t
    THEN [panicked |-> FALSE, wrapped |-> FALSE,
          num |-> entry.rank, den |-> (t - entry.last_accessed) + 12500]
    ELSE IF build = "debug"
         THEN [panicked |-> TRUE]
         ELSE [panicked |-> FALSE, wrapped |-> TRUE, num |-> entry.rank, den |-> 12500]

\* a < b for two scores; with ranks below 2^40 a wrapped score is below every
\* score that is not wrapped, unless both are 0
score_lt(a, b) ==
    IF a.wrapped = b.wrapped THEN a.num * b.den < b.num * a.den
    ELSE IF a.wrapped THEN b.num > 0
    ELSE a.num = 0 /\ b.num > 0

\* the comparator of the sort in z is Ordering::Less: by match priority, then
\* by frecent score from high to low, then by fewer path components
match_cmp_less_by_score_ascending(a, b) ==
    IF a.tier # b.tier THEN a.tier < b.tier
    ELSE IF score_lt(a.score, b.score) THEN TRUE
    ELSE IF score_lt(b.score, a.score) THEN FALSE
    ELSE components_count(a.path) < components_count(b.path)

match_cmp_less(a, b) ==
    IF a.tier # b.tier THEN a.tier < b.tier
    ELSE IF score_lt(b.score, a.score) THEN TRUE
    ELSE IF score_lt(a.score, b.score) THEN FALSE
    ELSE components_count(a.path) < components_count(b.path)

\* matches.sort_by, a stable sort
RECURSIVE sort_matches(_)
sort_matches(matches) ==
    IF matches = <<>> THEN <<>>
    ELSE LET last == matches[Len(matches)]
             sorted == sort_matches(SubSeq(matches, 1, Len(matches) - 1))
         IN IF \A j \in 1..Len(sorted) : ~match_cmp_less(last, sorted[j])
            THEN Append(sorted, last)
            ELSE LET first == CHOOSE i \in 1..Len(sorted) :
                                 /\ match_cmp_less(last, sorted[i])
                                 /\ \A j \in 1..(i - 1) : ~match_cmp_less(last, sorted[j])
                 IN SubSeq(sorted, 1, first - 1) \o <<last>>
                    \o SubSeq(sorted, first, Len(sorted))

\* the tier of a path for a query: 0 for a case-sensitive match, 1 for a match
\* in lower case only, None for no match
match_tier(path, query) ==
    IF contains(to_string_lossy(path), query) THEN Some(0)
    ELSE IF contains(to_lowercase(to_string_lossy(path)), to_lowercase(query))
         THEN Some(1)
    ELSE None

\* the loop of z over the table, in the order the HashMap iterates
RECURSIVE collect_matches(_, _, _, _, _)
collect_matches(data, order, query, t, build) ==
    IF order = <<>> THEN [panicked |-> FALSE, matches |-> <<>>]
    ELSE LET path == Head(order)
             score == frecent_score(data[path], t, build)
             tier == match_tier(path, query)
             rest == collect_matches(data, Tail(order), query, t, build)
         IN IF score.panicked \/ rest.panicked
            THEN [panicked |-> TRUE, matches |-> <<>>]
            ELSE [panicked |-> FALSE,
                  matches |-> IF tier.some
                              THEN <<[path |-> path, score |-> score, tier |-> tier.val]>>
                                   \o rest.matches
                              ELSE rest.matches]

\* matches.iter().find(|candidate| matches.iter().all(|other|
\* other.starts_with(candidate)))
find_ancestor_never(matches) == None

find_ancestor(matches) ==
    LET hits == {i \in 1..Len(matches) :
                    \A j \in 1..Len(matches) :
                        starts_with(matches[j].path, matches[i].path)}
    IN IF hits = {} THEN None
       ELSE Some(matches[CHOOSE i \in hits : \A j \in hits : i <= j].path)

\* the table without the entries of the given paths
remove_all(data, paths) == [q \in (DOMAIN data) \ paths |-> data[q]]

\* the walk of z over the sorted matches: the first path that exists, and the
\* paths before it, which are removed
walk_removing_the_hit(sorted, existing) ==
    LET hits == {i \in 1..Len(sorted) : sorted[i].path \in existing}
        stop == IF hits = {} THEN Len(sorted)
                ELSE CHOOSE i \in hits : \A j \in hits : i <= j
    IN [result |-> IF hits = {} THEN None ELSE Some(sorted[stop].path),
        removed |-> {sorted[i].path : i \in 1..stop}]

walk(sorted, existing) ==
    LET hits == {i \in 1..Len(sorted) : sorted[i].path \in existing}
        stop == IF hits = {} THEN Len(sorted) + 1
                ELSE CHOOSE i \in hits : \A j \in hits : i <= j
    IN [result |-> IF hits = {} THEN None ELSE Some(sorted[stop].path),
        removed |-> {sorted[i].path : i \in 1..(stop - 1)}]

\* DirectoryIndex::z on the table data, where order is the order the HashMap
\* iterates in and existing the paths that exist on disk: the fate of the call,
\* its result, the table it leaves and whether it saved the table to disk
z(data, order, query, existing, t, build) ==
    LET collected == collect_matches(data, order, query, t, build)
        matches == collected.matches
        ancestor == find_ancestor(matches)
        walked == walk(sort_matches(matches), existing)
    IN IF collected.panicked
       THEN [outcome |-> "panicked", result |-> None, data |-> data, saved |-> FALSE]
       ELSE IF matches = <<>>
       THEN [outcome |-> "returned", result |-> None, data |-> data, saved |-> FALSE]
       ELSE IF ancestor.some
       THEN [outcome |-> "returned", result |-> ancestor, data |-> data, saved |-> FALSE]
       ELSE [outcome |-> "returned", result |-> walked.result,
             data |-> remove_all(data, walked.removed),
             saved |-> walked.removed # {}]

(* The index file: one line "<path>|<rank>|<last_accessed>" per entry.     *)
(* A line is a sequence of chars; InvalidByte stands for bytes that are not *)
(* UTF-8.                                                                   *)

DigitChars == <<"0", "1", "2", "3", "4", "5", "6", "7", "8", "9">>

IsDigit(c) == \E d \in 1..Len(DigitChars) : DigitChars[d] = c

digit_value(c) == (CHOOSE d \in 1..Len(DigitChars) : DigitChars[d] = c) - 1

InvalidByte == "0xFF"

\* Display of a u64
RECURSIVE fmt_u64(_)
fmt_u64(n) ==
    IF n < Len(DigitChars) THEN <<DigitChars[n + 1]>>
    ELSE Append(fmt_u64(n \div Len(DigitChars)), DigitChars[(n % Len(DigitChars)) + 1])

\* the value of a string of digits
RECURSIVE digits_value(_)
digits_value(s) ==
    IF s = <<>> THEN 0
    ELSE digits_value(SubSeq(s, 1, Len(s) - 1)) * Len(DigitChars)
         + digit_value(s[Len(s)])

AllDigits(s) == \A i \in 1..Len(s) : IsDigit(s[i])

\* str::parse::<u64>: an optional '+' and at least one digit
parse_u64(s) ==
    LET body == IF s # <<>> /\ s[1] = "+" THEN Tail(s) ELSE s
    IN IF body # <<>> /\ AllDigits(body) THEN Some(digits_value(body)) ELSE None

\* the number of decimals a rank has in units of 1 / RankUnit
RankDecimals == Len(fmt_u64(RankUnit)) - 1

RECURSIVE strip_trailing_zeros(_)
strip_trailing_zeros(s) ==
    IF s # <<>> /\ s[Len(s)] = DigitChars[1]
    THEN strip_trailing_zeros(SubSeq(s, 1, Len(s) - 1))
    ELSE s

RECURSIVE pad_left(_, _)
pad_left(s, width) ==
    IF Len(s) >= width THEN s ELSE pad_left(<<DigitChars[1]>> \o s, width)

RECURSIVE pad_right(_, _)
pad_right(s, width) ==
    IF Len(s) >= width THEN s ELSE pad_right(Append(s, DigitChars[1]), width)

\* Display of an f64: the shortest decimal that reads back as the same
\* number, without exponent ("0", "1", "1.99", "-1")
fmt_f64(rank) ==
    LET magnitude == IF rank < 0 THEN 0 - rank ELSE rank
        decimals == strip_trailing_zeros(
                        pad_left(fmt_u64(magnitude % RankUnit), RankDecimals))
    IN (IF rank < 0 THEN <<"-">> ELSE <<>>)
       \o fmt_u64(magnitude \div RankUnit)
       \o (IF decimals = <<>> THEN <<>> ELSE <<".">> \o decimals)

\* str::parse::<f64> on decimals without exponent: an optional sign, digits,
\* an optional '.' and digits, with a digit on one side of the '.' at least.
\* Decimals beyond RankDecimals are outside the model
parse_f64(s) ==
    LET signed == s # <<>> /\ s[1] \in {"+", "-"}
        body == IF signed THEN Tail(s) ELSE s
        dots == {i \in 1..Len(body) : body[i] = "."}
        dot == IF dots = {} THEN Len(body) + 1
               ELSE CHOOSE i \in dots : \A j \in dots : i <= j
        whole == SubSeq(body, 1, dot - 1)
        decimals == SubSeq(body, dot + 1, Len(body))
        magnitude == digits_value(whole) * RankUnit
                     + digits_value(pad_right(decimals, RankDecimals))
    IN IF /\ AllDigits(whole) /\ AllDigits(decimals)
          /\ Len(whole) + Len(decimals) > 0
          /\ Len(decimals) <= RankDecimals
       THEN Some(IF signed /\ s[1] = "-" THEN 0 - magnitude ELSE magnitude)
       ELSE None

\* str::split(sep).collect(): the parts between the separators
RECURSIVE split(_, _)
split(s, sep) ==
    LET hits == {i \in 1..Len(s) : s[i] = sep}
    IN IF hits = {} THEN <<s>>
       ELSE LET first == CHOOSE i \in hits : \A j \in hits : i <= j
            IN <<SubSeq(s, 1, first - 1)>> \o split(SubSeq(s, first + 1, Len(s)), sep)

\* PathBuf::from of the text of an absolute path: its components
path_from(s) ==
    LET parts == split(s, "/")
    IN SelectSeq(parts, LAMBDA part : part # <<>>)

unwrap_or(option, default) == IF option.some THEN option.val ELSE default

\* writeln!(writer, "{}|{}|{}", path.display(), entry.rank, entry.last_accessed)
format_line(path, entry) ==
    to_string_lossy(path) \o <<"|">> \o fmt_f64(entry.rank)
        \o <<"|">> \o fmt_u64(entry.last_accessed)

\* DirectoryIndex::save_to_disk: the file is created anew and holds one line
\* per entry, in the order the HashMap iterates in
save_to_disk(data, order) ==
    [i \in 1..Len(order) |-> format_line(order[i], data[order[i]])]

\* HashMap::insert
insert(data, path, entry) ==
    [q \in (DOMAIN data) \cup {path} |-> IF q = path THEN entry ELSE data[q]]

\* BufRead::lines yields an error for a line that is not UTF-8
is_utf8(line) == \A i \in 1..Len(line) : line[i] # InvalidByte

\* the loop of load_from_disk over the lines of the file
RECURSIVE load_lines_failing_on_malformed(_, _)
load_lines_failing_on_malformed(lines, data) ==
    IF lines = <<>> THEN [ok |-> TRUE, data |-> data]
    ELSE IF ~is_utf8(Head(lines)) THEN [ok |-> FALSE, data |-> data]
    ELSE LET parts == split(Head(lines), "|")
         IN IF Len(parts) # 3
            THEN [ok |-> FALSE, data |-> data]
            ELSE load_lines_failing_on_malformed(
                     Tail(lines),
                     insert(data, path_from(parts[1]),
                            [rank |-> unwrap_or(parse_f64(parts[2]), 0),
                             last_accessed |-> unwrap_or(parse_u64(parts[3]), 0)]))

RECURSIVE load_lines(_, _)
load_lines(lines, data) ==
    IF lines = <<>> THEN [ok |-> TRUE, data |-> data]
    ELSE IF ~is_utf8(Head(lines)) THEN [ok |-> FALSE, data |-> data]
    ELSE LET parts == split(Head(lines), "|")
         IN IF Len(parts) # 3
            THEN load_lines(Tail(lines), data)
            ELSE load_lines(
                     Tail(lines),
                     insert(data, path_from(parts[1]),
                            [rank |-> unwrap_or(parse_f64(parts[2]), 0),
                             last_accessed |-> unwrap_or(parse_u64(parts[3]), 0)]))

\* DirectoryIndex::load_from_disk: a file that does not exist is created
\* empty; ok tells Ok(DirectoryIndex) from Err
load_from_disk(file) == load_lines(file, <<>>)

\* DirectoryIndexEntry::new
DirectoryIndexEntry_new_with_rank_one(t) == [rank |-> RankUnit, last_accessed |-> t]

DirectoryIndexEntry_new(t) == [rank |-> 0, last_accessed |-> t]

\* DirectoryIndexEntry::update: rank = rank * 0.99 + 1.0
DirectoryIndexEntry_update_adding_rank_only(entry, t) ==
    [rank |-> entry.rank + RankUnit, last_accessed |-> t]

DirectoryIndexEntry_update(entry, t) ==
    [rank |-> (entry.rank * 99) \div 100 + RankUnit, last_accessed |-> t]

\* the new rank is a multiple of 1 / RankUnit: 0.0, 1.0, 1.99 and 2.9701 are,
\* the ranks that follow are not
update_is_exact(entry) == (entry.rank * 99) % 100 = 0

\* DirectoryIndex::push, up to its save: the table it leaves and whether it
\* goes on to save
push_without_saving(data, path, existing, t) ==
    IF path \notin existing THEN [data |-> data, saved |-> FALSE]
    ELSE IF path \in DOMAIN data
    THEN [data |-> [data EXCEPT ![path] = DirectoryIndexEntry_update(data[path], t)],
          saved |-> FALSE]
    ELSE [data |-> insert(data, path, DirectoryIndexEntry_new(t)), saved |-> FALSE]

push_without_exists_check(data, path, existing, t) ==
    IF path \in DOMAIN data
    THEN [data |-> [data EXCEPT ![path] = DirectoryIndexEntry_update(data[path], t)],
          saved |-> TRUE]
    ELSE [data |-> insert(data, path, DirectoryIndexEntry_new(t)), saved |-> TRUE]

push(data, path, existing, t) ==
    IF path \notin existing THEN [data |-> data, saved |-> FALSE]
    ELSE IF path \in DOMAIN data
    THEN [data |-> [data EXCEPT ![path] = DirectoryIndexEntry_update(data[path], t)],
          saved |-> TRUE]
    ELSE [data |-> insert(data, path, DirectoryIndexEntry_new(t)), saved |-> TRUE]

(* Behaviours of the index: a table is loaded from a file that holds up to  *)
(* MaxIndexEntries records, one per path and in one of the orders a save    *)
(* can write, whose paths exist; directories are then deleted from disk and *)
(* z is called.                                                             *)

\* the tables over the given paths
IndexTablesOver(paths) == [paths -> IndexEntries]

\* the orders a HashMap with the given keys can iterate in
IterationOrders(keys) ==
    {order \in [1..Cardinality(keys) -> keys] :
        \A i, j \in 1..Cardinality(keys) : i # j => order[i] # order[j]}

\* the process holds an index: load_from_disk returned Ok and no call of z
\* has panicked
IndexRunning ==
    /\ ~(z_call.some /\ z_call.val.outcome = "panicked")
    /\ ~(index_call.some /\ index_call.val.op = "load" /\ ~index_call.val.ok)

\* the record of a load_from_disk that found the given lines
LoadCall(file) ==
    Some([op |-> "load", who |-> "self", file |-> file,
          ok |-> load_from_disk(file).ok])

IndexInit ==
    /\ \E paths \in SUBSET IndexPaths :
          /\ Cardinality(paths) <= MaxIndexEntries
          /\ index_table \in IndexTablesOver(paths)
          /\ existing_paths = paths
          /\ index_file = save_to_disk(index_table,
                                       CHOOSE order \in IterationOrders(paths) : TRUE)
    /\ now = LoadTime
    /\ z_call = None
    /\ index_ops = 0
    /\ index_call = LoadCall(index_file)
    /\ peer_table = None
    /\ TrieIdle
    /\ RegistryIdle
    /\ AppIdle

\* a directory is deleted from disk
RemoveDir ==
    /\ IndexRunning
    /\ index_ops = 0
    /\ \E path \in existing_paths : existing_paths' = existing_paths \ {path}
    /\ UNCHANGED <<index_table, index_file, now, z_call, index_ops, index_call,
                   peer_table>>
    /\ UNCHANGED <<trie_vars, registry_vars, app_vars>>

\* DirectoryIndex::z, called while the clock reads now
Z ==
    /\ IndexRunning
    /\ index_ops < MaxZCalls
    /\ \E query \in IndexQueries, build \in Builds,
          order \in IterationOrders(DOMAIN index_table) :
          LET call == z(index_table, order, query, existing_paths, now, build)
          IN /\ index_table' = call.data
             /\ IF call.saved
                THEN \E saved_order \in IterationOrders(DOMAIN call.data) :
                        index_file' = save_to_disk(call.data, saved_order)
                ELSE UNCHANGED index_file
             /\ UNCHANGED now
             /\ z_call' = Some([query |-> query, data |-> index_table,
                                existing |-> existing_paths, now |-> now,
                                build |-> build, outcome |-> call.outcome,
                                result |-> call.result, file |-> index_file])
    /\ index_ops' = index_ops + 1
    /\ index_call' = None
    /\ UNCHANGED <<existing_paths, peer_table>>
    /\ UNCHANGED <<trie_vars, registry_vars, app_vars>>

IndexNext == RemoveDir \/ Z

SpecIndex == IndexInit /\ [][IndexNext]_vars

----------------------------------------------------------------------------
(* Behaviours of one process on an index file: the index is loaded from a   *)
(* file of up to MaxFileLines lines, well-formed or not, and the process    *)
(* then pushes, queries and reloads while the clock advances up to MaxNow.  *)

MaxFileLines == 2

MaxNow == LoadTime + 1

\* /c and a directory whose name holds the separator of the file
StorePaths == { << <<"c">> >>, << <<"c", "|">> >> }

\* what exists on disk: both directories, or the second one only
StoreDisks == { StorePaths, { << <<"c", "|">> >> } }

StoreLines ==
    { <<"/", "c", "|", "1", "|", "1">>,
      <<"/", "c", "|", "-", "1", "|", "2">>,
      <<"/", "c", "|", "x", "|", "y">>,
      <<"/", "c", "|", "1">>,
      <<"/", "c", "|", "|", "0", "|", "2">>,
      <<InvalidByte>> }

StoreFiles ==
    UNION { [1..n -> StoreLines] : n \in 0..MaxFileLines }

StoreInit ==
    /\ index_file \in StoreFiles
    /\ existing_paths \in StoreDisks
    /\ index_table = load_from_disk(index_file).data
    /\ index_call = LoadCall(index_file)
    /\ now = LoadTime
    /\ z_call = None
    /\ index_ops = 0
    /\ peer_table = None
    /\ TrieIdle
    /\ RegistryIdle
    /\ AppIdle

\* DirectoryIndex::load_from_disk, again
Load ==
    /\ IndexRunning
    /\ index_table' = load_from_disk(index_file).data
    /\ index_call' = LoadCall(index_file)
    /\ z_call' = None
    /\ UNCHANGED <<index_file, existing_paths, now, index_ops, peer_table>>
    /\ UNCHANGED <<trie_vars, registry_vars, app_vars>>

\* the record of a push by the given process: the table it found, and
\* whether it directly follows a load
PushCall(who, path, data) ==
    Some([op |-> "push", who |-> who, path |-> path, data |-> data,
          file |-> index_file, existed |-> path \in existing_paths,
          now |-> now,
          after_load |-> index_call.some /\ index_call.val.op = "load"])

\* DirectoryIndex::push of one of the given paths, by the process itself or
\* by the second process, followed by its save
PushAs(who, paths) ==
    LET data == IF who = "self" THEN index_table ELSE peer_table
    IN \E path \in paths :
          LET call == push(data, path, existing_paths, now)
          IN /\ path \in DOMAIN data => update_is_exact(data[path])
             /\ IF who = "self"
                THEN index_table' = call.data /\ UNCHANGED peer_table
                ELSE peer_table' = call.data /\ UNCHANGED index_table
             /\ IF call.saved
                THEN \E order \in IterationOrders(DOMAIN call.data) :
                        index_file' = save_to_disk(call.data, order)
                ELSE UNCHANGED index_file
             /\ index_call' = PushCall(who, path, data)

\* DirectoryIndex::push
Push ==
    /\ IndexRunning
    /\ PushAs("self", StorePaths)
    /\ z_call' = None
    /\ UNCHANGED <<existing_paths, now, index_ops>>
    /\ UNCHANGED <<trie_vars, registry_vars, app_vars>>

\* a second passes
Tick ==
    /\ now < MaxNow
    /\ now' = now + 1
    /\ UNCHANGED <<index_table, index_file, existing_paths, z_call, index_ops,
                   index_call, peer_table>>
    /\ UNCHANGED <<trie_vars, registry_vars, app_vars>>

StoreNext == Load \/ Push \/ Tick \/ Z

SpecStore == StoreInit /\ [][StoreNext]_vars

----------------------------------------------------------------------------
(* Behaviours of two processes on one index file: each loads the file into  *)
(* its own table and pushes; nothing orders the loads and the saves of one  *)
(* process with those of the other.                                         *)

SharedPaths == { << <<"c">> >>, << <<"d">> >> }

SharedInit ==
    /\ index_file = <<>>
    /\ existing_paths = SharedPaths
    /\ index_table = load_from_disk(index_file).data
    /\ index_call = LoadCall(index_file)
    /\ peer_table = None
    /\ now = LoadTime
    /\ z_call = None
    /\ index_ops = 0
    /\ TrieIdle
    /\ RegistryIdle
    /\ AppIdle

\* the second process has loaded the file
PeerRunning == peer_table # None

\* DirectoryIndex::load_from_disk in the second process
PeerLoad ==
    /\ load_from_disk(index_file).ok
    /\ peer_table' = load_from_disk(index_file).data
    /\ index_call' = Some([op |-> "load", who |-> "peer", file |-> index_file,
                           ok |-> TRUE])
    /\ UNCHANGED <<index_table, index_file, existing_paths, now, z_call, index_ops>>
    /\ UNCHANGED <<trie_vars, registry_vars, app_vars>>

\* DirectoryIndex::push in the first process
SharedPush ==
    /\ IndexRunning
    /\ PushAs("self", SharedPaths)
    /\ UNCHANGED <<existing_paths, now, z_call, index_ops>>
    /\ UNCHANGED <<trie_vars, registry_vars, app_vars>>

\* DirectoryIndex::push in the second process
PeerPush ==
    /\ PeerRunning
    /\ PushAs("peer", SharedPaths)
    /\ UNCHANGED <<existing_paths, now, z_call, index_ops>>
    /\ UNCHANGED <<trie_vars, registry_vars, app_vars>>

SharedNext == Load \/ SharedPush \/ PeerLoad \/ PeerPush

SpecShared == SharedInit /\ [][SharedNext]_vars

----------------------------------------------------------------------------
(* Claims about z, checked under SpecIndex. They read the record of the     *)
(* last call together with the table and the disk it left.                  *)

ZCall == z_call.val

\* the last call of z returned (it did not panic)
ZReturned == z_call.some /\ z_call.val.outcome = "returned"

\* the paths of the table the call started with that match its query
ZMatches == {path \in DOMAIN ZCall.data : match_tier(path, ZCall.query).some}

\* the matches that are an ancestor of every match
ZAncestors == {m \in ZMatches : \A other \in ZMatches : starts_with(other, m)}

ZTier(path) == match_tier(path, ZCall.query).val

ZScore(path) == frecent_score(ZCall.data[path], ZCall.now, ZCall.build)

\* q comes strictly before p in the order of the ranking: lower tier, then
\* higher score, then fewer components
ZBefore(q, p) ==
    \/ ZTier(q) < ZTier(p)
    \/ ZTier(q) = ZTier(p) /\ score_lt(ZScore(p), ZScore(q))
    \/ /\ ZTier(q) = ZTier(p)
       /\ ~score_lt(ZScore(p), ZScore(q)) /\ ~score_lt(ZScore(q), ZScore(p))
       /\ components_count(q) < components_count(p)

\* C18: z never returns a path that does not exist on disk, and when no
\* matching path exists on disk it returns no match and leaves no matching path
\* in the index.
C18_NeverReturnsDeletedPath ==
    ZReturned =>
        /\ ZCall.result.some => ZCall.result.val \in existing_paths
        /\ (ZMatches # {} /\ ZMatches \cap existing_paths = {}) =>
              /\ ZCall.result = None
              /\ ZMatches \cap DOMAIN index_table = {}

C20_FirstExistingInRankingOrder ==
    ZReturned =>
        /\ ZCall.result.some => ZCall.result.val \in ZMatches
        /\ ZMatches = {} => ZCall.result = None
        /\ ZAncestors = {} =>
              IF ZMatches \cap existing_paths = {}
              THEN ZCall.result = None
              ELSE /\ ZCall.result.some
                   /\ ZCall.result.val \in ZMatches \cap existing_paths
                   /\ \A q \in ZMatches \cap existing_paths :
                         ~ZBefore(q, ZCall.result.val)

\* two matches without ancestor: the first in the order was deleted from disk
\* and is removed from the index, the second is returned
C20_Witness ==
    /\ ZReturned
    /\ ZAncestors = {}
    /\ \E gone, p \in ZMatches :
          /\ gone \notin existing_paths /\ gone \notin DOMAIN index_table
          /\ ZBefore(gone, p)
          /\ p \in existing_paths
          /\ ZCall.result = Some(p)

----------------------------------------------------------------------------
(* Claims about load, push and the file, checked under SpecStore. They read *)
(* the record of the last load or push together with the table and the file *)
(* it left.                                                                 *)

IndexCall == index_call.val

\* the last operation was a push, of a path that exists on disk
Pushed == index_call.some /\ index_call.val.op = "push"

PushedExisting == Pushed /\ IndexCall.existed

\* the last operation was a load that returned Ok
Loaded == index_call.some /\ index_call.val.op = "load" /\ index_call.val.ok

\* 0.0, 1.0, 1.99, 2.9701 in units of 1 / RankUnit
C21_RankSequence == <<0, RankUnit, 2 * RankUnit - 100, 3 * RankUnit - 299>>

\* the sequence as the claim prints it: 0.0, 1.0, 1.99, 2.9601
C21_StatedSequence == <<0, RankUnit, 2 * RankUnit - 100, 3 * RankUnit - 399>>

\* after a push of an existing path the rank follows the given sequence
\* and the rule 0.99 * rank + 1.0, and last_accessed is the time of the push
C21_PushFollows(sequence) ==
    PushedExisting =>
        LET path == IndexCall.path
            before == IndexCall.data
        IN /\ path \in DOMAIN index_table
           /\ index_table[path].last_accessed = IndexCall.now
           /\ IF path \notin DOMAIN before
              THEN index_table[path].rank = sequence[1]
              ELSE /\ index_table[path].rank * 100
                        = before[path].rank * 99 + RankUnit * 100
                   /\ \A k \in 1..(Len(sequence) - 1) :
                          before[path].rank = sequence[k]
                              => index_table[path].rank = sequence[k + 1]

C22_PushOfMissingPathIsNoOp ==
    (Pushed /\ ~IndexCall.existed) =>
        /\ index_table = IndexCall.data
        /\ index_file = IndexCall.file
        /\ IndexRunning

\* a directory that is gone from disk, still in the table, is pushed
C22_Witness ==
    /\ Pushed
    /\ ~IndexCall.existed
    /\ IndexCall.path \in DOMAIN IndexCall.data
    /\ index_file # <<>>

\* the table that load_from_disk reads from the file as it is now
Reloaded == load_from_disk(index_file)

\* the last operation saved the table: a push of an existing path, or a
\* query that removed an entry
Saved ==
    \/ PushedExisting
    \/ z_call.some /\ z_call.val.outcome # "panicked"
          /\ index_table # z_call.val.data

\* the file holds one line per entry of the table, the line save_to_disk
\* writes for it, and no other line
OneRecordPerEntry ==
    /\ Len(index_file) = Cardinality(DOMAIN index_table)
    /\ \A path \in DOMAIN index_table :
          \E i \in 1..Len(index_file) :
             index_file[i] = format_line(path, index_table[path])

\* C23: in one process, after every push of an existing path and after every
\* query that removed a stale entry, the file holds exactly one record per
\* in-memory entry and no other record, and loading it yields the in-memory
\* table.
C23_FileMirrorsTable ==
    Saved => (OneRecordPerEntry /\ Reloaded.ok /\ Reloaded.data = index_table)

\* C24: save_to_disk followed by load_from_disk gives back the table that
\* was saved, the same (path, rank, last_accessed) triples.
C24_SaveLoadRoundTrip ==
    Saved => (Reloaded.ok /\ Reloaded.data = index_table)

\* the positions of the separator in a line, and the three fields of a line
\* that holds two of them
Separators(line) == {i \in 1..Len(line) : line[i] = "|"}

WellFormed(line) == Cardinality(Separators(line)) = 2

FirstSeparator(line) ==
    CHOOSE i \in Separators(line) : \A j \in Separators(line) : i <= j

LastSeparator(line) ==
    CHOOSE i \in Separators(line) : \A j \in Separators(line) : j <= i

PathField(line) == SubSeq(line, 1, FirstSeparator(line) - 1)

RankField(line) == SubSeq(line, FirstSeparator(line) + 1, LastSeparator(line) - 1)

TimeField(line) == SubSeq(line, LastSeparator(line) + 1, Len(line))

\* the lines are text: the file is in the persistence format, UTF-8
IsText(file) == \A i \in 1..Len(file) : is_utf8(file[i])

\* the entry a well-formed line stands for
RecordEntry(line) ==
    [rank |-> IF parse_f64(RankField(line)).some
              THEN parse_f64(RankField(line)).val ELSE 0,
     last_accessed |-> IF parse_u64(TimeField(line)).some
                       THEN parse_u64(TimeField(line)).val ELSE 0]

NonNegative(data) == \A path \in DOMAIN data : data[path].rank >= 0

\* the last operation was a query that returned
Queried == z_call.some /\ z_call.val.outcome # "panicked"

ReadTimes == ZCall.now..(MaxNow + 1)

\* the score an entry of the last query has when read at time t
ScoreAt(path, t) == frecent_score(ZCall.data[path], t, ZCall.build)

\* the entries of the last query whose dx is now - last_accessed at the time
\* of the query and later
Scored == {path \in DOMAIN ZCall.data : ZCall.data[path].last_accessed <= ZCall.now}

\* C27: the frecency score is strictly decreasing in dx = now - last_accessed
\* for every fixed rank > 0 and strictly increasing in rank for every fixed dx;
\* it is computed at each read from rank and last_accessed and is stored
\* neither in the table nor in the file.
C27_ScoreMonotoneAndNotStored ==
    /\ Queried =>
          /\ \A p \in Scored, q \in Scored, t \in ReadTimes, u \in ReadTimes :
                LET dp == t - ZCall.data[p].last_accessed
                    dq == u - ZCall.data[q].last_accessed
                    rp == ZCall.data[p].rank
                    rq == ZCall.data[q].rank
                IN /\ (rp = rq /\ rp > 0 /\ dp < dq)
                       => score_lt(ScoreAt(q, u), ScoreAt(p, t))
                   /\ (dp = dq /\ rp < rq)
                       => score_lt(ScoreAt(p, t), ScoreAt(q, u))
          /\ \A path \in DOMAIN index_table :
                index_table[path] = ZCall.data[path]
    /\ \A path \in DOMAIN index_table :
          DOMAIN index_table[path] = {"rank", "last_accessed"}
    /\ Saved => OneRecordPerEntry

\* a query over entries of the same rank > 0 read at different ages, and of
\* different ranks read at the same age
C27_Witness ==
    /\ Queried
    /\ \E p \in Scored, q \in Scored, t \in ReadTimes, u \in ReadTimes :
          /\ ZCall.data[p].rank = ZCall.data[q].rank
          /\ ZCall.data[p].rank > 0
          /\ t - ZCall.data[p].last_accessed < u - ZCall.data[q].last_accessed
    /\ \E p \in Scored, q \in Scored, t \in ReadTimes, u \in ReadTimes :
          /\ t - ZCall.data[p].last_accessed = u - ZCall.data[q].last_accessed
          /\ ZCall.data[p].rank < ZCall.data[q].rank

----------------------------------------------------------------------------
(* Claims about two processes on one file, checked under SpecShared.        *)

\* the table of the process that made the last load or push
CallerTable == IF IndexCall.who = "self" THEN index_table ELSE peer_table

\* C28: two processes on one index file can lose an update. The last writer
\* wins: after every push of an existing path the file holds the table of the
\* process that pushed and nothing else, whatever the other process has
\* written since that table was loaded.
C28_LastWriterWins ==
    PushedExisting =>
        /\ Reloaded.ok
        /\ Reloaded.data = CallerTable

\* both processes loaded the empty file, the first pushed one directory and
\* the second then pushed the other: the file lacks the first one
C28_Witness ==
    /\ PushedExisting
    /\ IndexCall.who = "peer"
    /\ PeerRunning
    /\ \E p \in SharedPaths, q \in SharedPaths :
          /\ p # q
          /\ IndexCall.path = q
          /\ DOMAIN index_table = {p}
          /\ DOMAIN peer_table = {q}
          /\ DOMAIN Reloaded.data = {q}
          /\ \A i \in 1..Len(index_file) :
                path_from(PathField(index_file[i])) # p

----------------------------------------------------------------------------
(* Claims about the entry hotkeys in the interactive loop, checked under    *)
(* SpecApp. entries and entry_render_data are what the last redraw showed.  *)

\* the entries of the last redraw that are directories and show the given
\* key sequence
ShownWith(sequence) ==
    {i \in 1..Len(entry_render_data) :
        /\ entries[i].kind = "Directory"
        /\ entry_render_data[i].key_combo_sequence = Some(sequence)}

\* the press was made in Normal mode, or in Search mode with search text
HotkeysShown ==
    \/ LastKey.input_mode = "Normal"
    \/ LastKey.input_mode = "Search" /\ LastKey.search_input.value # <<>>

\* C29: after a redraw, the full key sequence shown for a directory entry,
\* pressed from an empty buffer with each key within the timeout of the one
\* before, changes the current directory to the path of that entry, in Normal
\* mode and in Search mode with non-empty search text; in Search mode the
\* input mode becomes Normal and the search text is cleared.
C29_ShownSequenceJumps ==
    (JustHandled /\ HotkeysShown /\ ~LastKeyStale) =>
        \A i \in ShownWith(LastKeyBuffered) :
            /\ app.current_directory = entries[i].path
            /\ LastKey.executed
                  = <<[tag |-> "ChangeDirectoryToEntryWithIndex", index |-> i - 1]>>
            /\ LastKey.input_mode = "Search" =>
                  /\ app.input_mode = "Normal"
                  /\ app.search_input.value = <<>>

\* in Search mode with search text, the second key of a sequence of two keys
\* is pressed within the timeout
C29_Witness ==
    /\ JustHandled
    /\ LastKey.input_mode = "Search"
    /\ LastKey.search_input.value # <<>>
    /\ Len(LastKey.collected_key_combos) = 1
    /\ LastKey.elapsed = Some(INACTIVITY_TIMEOUT - 1)
    /\ ShownWith(LastKeyBuffered) # {}
    /\ app.current_directory # AppStartDirectory

\* the last redraw was made in Search mode with empty search text, and the
\* loop waits for the next event
DrawnWithoutHotkeys ==
    /\ app_pc = "handle_events"
    /\ app.input_mode = "Search"
    /\ app.search_input.value = <<>>

\* C30: after every redraw in Search mode with empty search text the entry
\* tier holds no hotkey and no entry shows a key sequence, and the next
\* character key pressed is appended to the search text, executes no action
\* and leaves the current directory as it is.
C30_EmptySearchHasNoEntryHotkeys ==
    /\ DrawnWithoutHotkeys =>
          /\ hotkeys_registry.entry_hotkeys_count = 0
          /\ Bindings(hotkeys_registry.entry_hotkeys) = {}
          /\ DOMAIN hotkeys_registry.entry_hotkeys.root.children = {}
          /\ \A i \in 1..Len(entry_render_data) :
                entry_render_data[i].key_combo_sequence = None
    /\ (/\ JustHandled
        /\ LastKey.input_mode = "Search"
        /\ LastKey.search_input.value = <<>>
        /\ IsChar(LastKey.key_combo.key_code)) =>
          /\ app.search_input.value = <<LastKey.key_combo.key_code>>
          /\ LastKey.executed = <<>>
          /\ app.current_directory = LastKey.current_directory
          /\ app.input_mode = "Search"

\* in Search mode with empty text the first key of the pool is pressed while
\* directories are listed
C30_Witness ==
    /\ JustHandled
    /\ LastKey.input_mode = "Search"
    /\ LastKey.search_input.value = <<>>
    /\ LastKey.key_combo = AppPool[1]
    /\ \E i \in 1..Len(entries) : entries[i].kind = "Directory"
    /\ app.search_input.value = <<AppPool[1].key_code>>

----------------------------------------------------------------------------
(* Claims about the nodes of a trie, checked under SpecTrie. *)

\* the nodes below a node, each with the sequence that leads to it
RECURSIVE NodesBelow(_, _)
NodesBelow(node, path) ==
    UNION { {<<Append(path, k), node.children[k]>>}
            \cup NodesBelow(node.children[k], Append(path, k)) :
            k \in DOMAIN node.children }

\* C40: after any sequence of insert and clear every non-root node of the trie
\* has a value or at least one child, and a non-root node without value lies
\* on the way to an inserted sequence: it is a live prefix.
C40_NoDeadNode ==
    \A n \in NodesBelow(trie.root, <<>>) :
        /\ n[2].value.some \/ DOMAIN n[2].children # {}
        /\ HotkeysTrie_get_node(trie, n[1]) = Some(n[2])
        /\ ~n[2].value.some =>
              \E t \in DOMAIN inserted : IsPrefix(n[1], t) /\ n[1] # t

\* a node without value above an inserted sequence, next to a leaf with a
\* value, after all the operations
C40_Witness ==
    /\ trie_ops = MaxTrieOps
    /\ \E n \in NodesBelow(trie.root, <<>>) :
          ~n[2].value.some /\ DOMAIN n[2].children # {}
    /\ \E n \in NodesBelow(trie.root, <<>>) :
          n[2].value.some /\ DOMAIN n[2].children = {} /\ Len(n[1]) = 1

----------------------------------------------------------------------------
(* Claims about the two registry lookups, checked under SpecRegistry. *)

LookupContexts == {"Normal", "Search"}

\* the value held by the node that get_hotkey_node returns
NodeValue(c, s) ==
    LET node == get_hotkey_node(hotkeys_registry, c, s)
    IN IF node.some THEN node.val.value ELSE None

\* C35: the two registry lookups agree: for every context c and sequence s,
\* get_hotkey_value(c, s) is the value held by the node get_hotkey_node(c, s)
\* returns, and None when it returns no node.
C35_LookupsAgree ==
    \A c \in LookupContexts, s \in RegistrySeqs :
        get_hotkey_value(hotkeys_registry, c, s) = NodeValue(c, s)

----------------------------------------------------------------------------
(* Claims about what a query writes, checked under SpecIndex. *)

\* the paths the last call of z removed from the table
ZRemoved == (DOMAIN ZCall.data) \ (DOMAIN index_table)

\* C34: z changes the index only by removing stale matches: every entry it
\* leaves has the rank and last_accessed it had, every entry it removes
\* matches the query and does not exist on disk, and when it removes nothing
\* the table and the file are the ones before the call.
C34_ZOnlyRemovesStaleMatches ==
    z_call.some =>
        /\ DOMAIN index_table \subseteq DOMAIN ZCall.data
        /\ \A path \in DOMAIN index_table : index_table[path] = ZCall.data[path]
        /\ \A path \in ZRemoved : path \in ZMatches /\ path \notin ZCall.existing
        /\ ZRemoved = {} => index_table = ZCall.data /\ index_file = ZCall.file

\* z removed a stale match, returned the next match, which exists, and left
\* its entry as it was
C34_Witness ==
    /\ ZReturned
    /\ ZRemoved # {}
    /\ ZCall.result.some
    /\ ZCall.result.val \in DOMAIN index_table
    /\ ZCall.result.val \in ZMatches

\* C39: computing a score never underflows now - last_accessed: at each call
\* of z every entry of the table has last_accessed <= now, so no call panics
\* and no score is computed from a wrapped difference.
C39_NoUnderflowInScore ==
    z_call.some =>
        /\ \A path \in DOMAIN ZCall.data : ZCall.data[path].last_accessed <= ZCall.now
        /\ ZCall.outcome # "panicked"
        /\ \A path \in DOMAIN ZCall.data :
              ~frecent_score(ZCall.data[path], ZCall.now, ZCall.build).panicked
              /\ ~frecent_score(ZCall.data[path], ZCall.now, ZCall.build).wrapped

----------------------------------------------------------------------------
(* Claims about the pool and the system hotkeys, checked under SpecApp. *)

\* the key sequences the last redraw shows, each with the position of its entry
ShownSequences ==
    {<<i, entry_render_data[i].key_combo_sequence.val>> :
        i \in {j \in 1..Len(entry_render_data) :
                  entry_render_data[j].key_combo_sequence.some}}

\* C36: no key of the default pool is the first key of a system hotkey of the
\* Normal or Search context, and every sequence assigned by assign_hotkeys is
\* reachable: looked up in either context it gives the action of its entry,
\* and each proper prefix of it gives a live-prefix node in Search context.
C36_AssignedSequencesReachable ==
    /\ \A c \in LookupContexts, k \in 1..Len(PREFERRED_KEY_COMBOS_IN_ORDER) :
          ~HotkeysTrie_get_node(new_with_default_system_hotkeys.system_hotkeys[c],
                                <<PREFERRED_KEY_COMBOS_IN_ORDER[k]>>).some
    /\ \A shown \in ShownSequences :
          /\ \A c \in LookupContexts :
                /\ get_hotkey_value(hotkeys_registry, c, shown[2])
                      = Some(ChangeDirectoryToEntryWithIndex(shown[1] - 1))
                /\ NodeValue(c, shown[2])
                      = Some(ChangeDirectoryToEntryWithIndex(shown[1] - 1))
          /\ \A n \in 1..(Len(shown[2]) - 1) :
                IsLivePrefix(get_hotkey_node(hotkeys_registry, "Search",
                                             SubSeq(shown[2], 1, n)))

\* a redraw in Search mode that shows a sequence of two keys
C36_Witness ==
    /\ app_pc = "handle_events"
    /\ app.input_mode = "Search"
    /\ \E shown \in ShownSequences : Len(shown[2]) = 2

----------------------------------------------------------------------------
(* Claims about single keys of the two modes, checked under SpecApp. *)

KeyBackspace == KeyComboFrom("Backspace", "NONE")

\* what the claim says a Backspace does to the search text, filter and mode
BackspaceApplied ==
    LET before == LastKey.search_input
        text == SubSeq(before.value, 1, Len(before.value) - 1)
    IN IF before.value # <<>>
       THEN /\ app.search_input.value = text
            /\ app.search_input.index = before.index - 1
            /\ app.entry_list = EntryList_update_filtered_indices(LastKey.entry_list, text)
            /\ app.input_mode = "Search"
       ELSE /\ app.search_input.value = <<>>
            /\ app.search_input.index = 0
            /\ app.input_mode = "Normal"

\* C31 as claimed: in Search mode every Backspace on a non-empty search text
\* removes its last character, decrements the cursor index, recomputes the
\* filter and stays in Search mode; on an empty text it leaves text and index
\* and switches to Normal mode.
C31_Original ==
    (JustHandled /\ LastKey.input_mode = "Search" /\ LastKey.key_combo = KeyBackspace) =>
        BackspaceApplied

\* C31, amended: the same for a Backspace pressed while no key is buffered;
\* the key buffer stays empty and the timer unset.
C31_BackspaceOnEmptyBuffer ==
    (/\ JustHandled /\ LastKey.input_mode = "Search" /\ LastKey.key_combo = KeyBackspace
     /\ LastKey.collected_key_combos = <<>>) =>
        /\ BackspaceApplied
        /\ LastKey.executed = <<Action("SearchInputBackspace")>>
        /\ app.collected_key_combos = <<>>
        /\ ~app.last_key_press_time.some

\* a Backspace on a text of two chars, with no key buffered, that changes the
\* filter
C31_Witness ==
    /\ JustHandled /\ LastKey.input_mode = "Search" /\ LastKey.key_combo = KeyBackspace
    /\ LastKey.collected_key_combos = <<>>
    /\ Len(LastKey.search_input.value) = 2
    /\ app.entry_list # LastKey.entry_list

KeyEsc == KeyComboFrom("Esc", "NONE")

\* the keys bound to Exit in the Normal context
QuitKeys == {KeyEsc, key_combo_from_char("q")}

\* a quit key of Normal mode acts by priority: it closes the help popup, else
\* clears the search text and the filter, else sets should_exit
QuitApplied ==
    IF LastKey.show_help
    THEN /\ ~app.show_help
         /\ ~app.should_exit
         /\ app.search_input = LastKey.search_input
         /\ app.entry_list = LastKey.entry_list
         /\ app.list_state = LastKey.list_state
    ELSE IF LastKey.search_input.value # <<>>
    THEN /\ app.search_input = SearchInput_default
         /\ app.entry_list = EntryList_update_filtered_indices(LastKey.entry_list, <<>>)
         /\ ~app.should_exit
    ELSE app.should_exit

\* what a quit key leaves alone
QuitFrame ==
    /\ app.input_mode = "Normal"
    /\ app.current_directory = LastKey.current_directory
    /\ app.entry_list.items = LastKey.entry_list.items

\* C32: in Normal mode q and Esc close the help popup when it is shown,
\* otherwise clear a non-empty search text and the filter, and only otherwise
\* set should_exit; Esc in Search mode returns to Normal mode without exiting.
\* Stated for a key that is looked up on its own: pressed in Normal mode on a
\* key buffer that is empty or older than the timeout, and in Search mode on
\* an empty key buffer.
C32_QuitKeysByPriority ==
    /\ (/\ JustHandled /\ LastKey.input_mode = "Normal" /\ LastKey.key_combo \in QuitKeys
        /\ LastKeyCarried = <<>>) =>
          /\ QuitApplied /\ QuitFrame
          /\ LastKey.executed = <<Action("Exit")>>
    /\ (/\ JustHandled /\ LastKey.input_mode = "Search" /\ LastKey.key_combo = KeyEsc
        /\ LastKey.collected_key_combos = <<>>) =>
          app.input_mode = "Normal" /\ ~app.should_exit

----------------------------------------------------------------------------
(* Claims about the key buffer, checked under SpecApp. *)

\* the handler looked the buffered sequence up: the Search handler returns
\* before its lookup when the buffered keys are stale
LookedUp == ~(LastKey.input_mode = "Search" /\ LastKeyStale)

\* C33: when the sequence the handler looks up is a live prefix (a node
\* without value that has children), the keystroke executes no action and
\* changes nothing but the key buffer and the timer: input mode, search text,
\* filter, selection, current directory, help flag and should_exit are as
\* before.
C33_LivePrefixChangesBufferOnly ==
    (/\ JustHandled /\ LookedUp
     /\ IsLivePrefix(get_hotkey_node(hotkeys_registry, LastKey.input_mode,
                                     LastKeyBuffered))) =>
        /\ LastKey.executed = <<>>
        /\ LastKey.flushed = <<>>
        /\ app.input_mode = LastKey.input_mode
        /\ app.search_input = LastKey.search_input
        /\ app.entry_list = LastKey.entry_list
        /\ app.list_state = LastKey.list_state
        /\ app.current_directory = LastKey.current_directory
        /\ app.show_help = LastKey.show_help
        /\ ~app.should_exit
        /\ app.collected_key_combos = LastKeyBuffered
        /\ app.last_key_press_time.some

\* the first key of a two-key entry hotkey, pressed in Search mode over a
\* filtered list
C33_Witness ==
    /\ JustHandled /\ LastKey.input_mode = "Search" /\ ~LastKeyStale
    /\ LastKey.search_input.value # <<>>
    /\ IsLivePrefix(get_hotkey_node(hotkeys_registry, "Search", LastKeyBuffered))
    /\ app.collected_key_combos = LastKeyBuffered

----------------------------------------------------------------------------
(* Claims about the entry tier in the draw-then-handle-key loop, checked     *)
(* under SpecApp.                                                            *)

\* the filtered entries a key handler addresses by index
FilteredNow == get_filtered_entries(app.entry_list)

\* the filtered entries the last key handler addressed
FilteredAtLastKey == get_filtered_entries(LastKey.entry_list)

\* C37: at every keystroke each action bound in the entry tier is
\* ChangeDirectoryToEntryWithIndex(i) with i within the currently filtered
\* entry list, the i-th filtered entry is a directory and is the entry the
\* last redraw showed the sequence beside; executing an entry hotkey never
\* sets should_exit and changes to the directory of that entry.
C37_EntryTierAddressesShownDirectories ==
    /\ app_pc = "handle_events" =>
          /\ FilteredNow = entries
          /\ \A b \in Bindings(hotkeys_registry.entry_hotkeys) :
                /\ b[2].tag = "ChangeDirectoryToEntryWithIndex"
                /\ b[2].index + 1 \in DOMAIN FilteredNow
                /\ FilteredNow[b[2].index + 1].kind = "Directory"
                /\ entry_render_data[b[2].index + 1].key_combo_sequence = Some(b[1])
    /\ (/\ JustHandled
        /\ Len(LastKey.executed) = 1
        /\ LastKey.executed[1].tag = "ChangeDirectoryToEntryWithIndex") =>
          /\ ~app.should_exit
          /\ LastKey.executed[1].index + 1 \in ShownWith(LastKeyBuffered)
          /\ FilteredAtLastKey = entries
          /\ app.current_directory = entries[LastKey.executed[1].index + 1].path

\* the second of two filtered directories is entered by its hotkey while the
\* unfiltered list holds a file
C37_Witness ==
    /\ JustHandled
    /\ Len(LastKey.executed) = 1
    /\ LastKey.executed[1].tag = "ChangeDirectoryToEntryWithIndex"
    /\ LastKey.executed[1].index >= 1
    /\ \E i \in DOMAIN LastKey.entry_list.items : LastKey.entry_list.items[i].kind = "File"
    /\ app.current_directory # LastKey.current_directory

\* C38: after every handled keystroke in either mode the timer is set exactly
\* when the key buffer is not empty.
C38_TimerSetIffBufferNonEmpty ==
    /\ JustHandled =>
          (app.last_key_press_time.some <=> app.collected_key_combos # <<>>)
    /\ (app_pc = "handle_events" /\ ~app.last_key_press_time.some) =>
          app.collected_key_combos = <<>>

\* a Normal-mode press that leaves two keys in the buffer and the timer set,
\* after a press that had emptied the buffer and unset the timer
C38_Witness ==
    /\ JustHandled
    /\ LastKey.input_mode = "Normal"
    /\ Len(app.collected_key_combos) = 2
    /\ app.last_key_press_time.some
    /\ keystrokes >= 3

====
